---- MODULE Spec2Model ----
(***************************************************************************)
(* A model of the consensus core of bcoin: the script number codec, the    *)
(* script (de)serializer, the script interpreter, the block validator and  *)
(* the coins codec.  Each subsystem has its own variables, its own initial *)
(* predicate and its own specification; the variables of the subsystems a  *)
(* specification does not exercise stay at their idle values.              *)
(*                                                                         *)
(* Byte vectors (Buffers) are sequences of naturals in 0..255.             *)
(***************************************************************************)
EXTENDS Integers, Sequences, FiniteSets, TLC

VARIABLES
  \* ---- Script.num / Script.array (lib/script/script.js)
  numPc,      \* "init" | "encoded" | "decoded"
  numN,       \* the integer handed to Script.array
  numArr,     \* the Buffer Script.array returned
  numFlags,   \* the flags handed to Script.num
  numOut,     \* what Script.num returned: [ok, val]
  \* ---- Script.decode / Script.encode (lib/script/script.js)
  cdPc,       \* "init" | "decoded" | "encoded" | "refused" | "redecoded"
  cdRaw,      \* the serialized script b
  cdCode,     \* Script.decode(b)
  cdEnc,      \* Script.encode(cdCode)
  cdCode2,    \* Script.decode(cdEnc)
  \* ---- Coins (lib/chain/coins.js)
  cnPc,       \* "built" | "serialized" | "spent" | "loaded" | "queried" |
              \* "modified" | "reserialized"
  cn,         \* the Coins object: version, hash, height, coinbase, outputs
  cnSrc,      \* the Coins object as it was when toRaw last serialized it
  cnBuf,      \* what toRaw last returned: [set, raw] (set = FALSE: nothing)
  cnRet,      \* what parseCoin / get / spend last returned:
              \* [op, index, found, coin]
  cnBuf2,     \* what toRaw returned for the loaded Coins: [set, raw]
  \* ---- Block (lib/primitives/block.js)
  bkPc,       \* "open" | "verified"
  blk,        \* the Block: merkleRoot, txs, and what verifyHeaders answers
  bkRet,      \* what _verify returned, and the ret object: [ok, reason, score]
  \* ---- Script.verify / Script.execute (lib/script/script.js)
  vfPc,       \* "ready" | "input" | "output" | "redeem" | "program" |
              \* "nested" | "done"
  vfArgs,     \* the arguments of Script.verify: input, witness, output, flags, tx
  ex,         \* the locals of the running execute and the stack it works on
  vfCopy,     \* verify's copy of the stack for P2SH
  vfStack,    \* verify's stack while verifyProgram executes, and as last tested
  vfHad,      \* verify's hadWitness
  vfRet,      \* how verify ended: [ok, err]
  ecValid,    \* the <<signature, key>> pairs the curve accepts for this input
  \* ---- Block sizes and rewards (lib/primitives/block.js)
  mtPc,       \* "ready" | "done"
  mtIn,       \* the block the method is called on: its sizes, height and fees
  mtOut,      \* what the method returned: [op, threw, value]
  \* ---- Block caches (lib/primitives/block.js)
  ckPc,       \* "ready" | "returned"
  ck,         \* the Block: mutable, version, txs and its cache fields
  ckRet,      \* what the getter last called returned: [op, threw, value]
  \* ---- Script helpers called on one script (lib/script/script.js)
  fnPc,       \* "ready" | "done"
  fnIn,       \* the arguments of the call
  fnOut       \* what the call returned: [op, value]

numVars == <<numPc, numN, numArr, numFlags, numOut>>
codecVars == <<cdPc, cdRaw, cdCode, cdEnc, cdCode2>>
coinsVars == <<cnPc, cn, cnSrc, cnBuf, cnRet, cnBuf2>>
blockVars == <<bkPc, blk, bkRet>>
verifyVars == <<vfPc, vfArgs, ex, vfCopy, vfStack, vfHad, vfRet, ecValid>>

mathVars == <<mtPc, mtIn, mtOut>>
cacheVars == <<ckPc, ck, ckRet>>
fnVars == <<fnPc, fnIn, fnOut>>

vars ==
  <<numVars, codecVars, coinsVars, blockVars, verifyVars, mathVars, cacheVars,
    fnVars>>

\* what the actions of one subsystem leave alone
notNum ==
  <<codecVars, coinsVars, blockVars, verifyVars, mathVars, cacheVars, fnVars>>
notCodec ==
  <<numVars, coinsVars, blockVars, verifyVars, mathVars, cacheVars, fnVars>>
notCoins ==
  <<numVars, codecVars, blockVars, verifyVars, mathVars, cacheVars, fnVars>>
notBlock ==
  <<numVars, codecVars, coinsVars, verifyVars, mathVars, cacheVars, fnVars>>
notVerify ==
  <<numVars, codecVars, coinsVars, blockVars, mathVars, cacheVars, fnVars>>
notCache == <<numVars, codecVars, coinsVars, blockVars, verifyVars, mathVars, fnVars>>
notFn == <<numVars, codecVars, coinsVars, blockVars, verifyVars, mathVars, cacheVars>>
notMath ==
  <<numVars, codecVars, coinsVars, blockVars, verifyVars, cacheVars, fnVars>>

(***************************************************************************)
(* The idle values of each subsystem's variables                           *)
(***************************************************************************)

NumIdle ==
  /\ numPc = "idle"
  /\ numN = 0
  /\ numArr = <<>>
  /\ numFlags = {}
  /\ numOut = [ok |-> FALSE, val |-> [neg |-> FALSE, mag |-> <<>>]]

CodecIdle ==
  /\ cdPc = "idle"
  /\ cdRaw = <<>>
  /\ cdCode = <<>>
  /\ cdEnc = <<>>
  /\ cdCode2 = <<>>

CoinsIdle ==
  /\ cnPc = "idle"
  /\ cn = <<>>
  /\ cnSrc = <<>>
  /\ cnBuf = <<>>
  /\ cnRet = <<>>
  /\ cnBuf2 = <<>>

BlockIdle ==
  /\ bkPc = "idle"
  /\ blk = <<>>
  /\ bkRet = <<>>

VerifyIdle ==
  /\ vfPc = "idle"
  /\ vfArgs = <<>>
  /\ ex = <<>>
  /\ vfCopy = <<>>
  /\ vfStack = <<>>
  /\ vfHad = FALSE
  /\ vfRet = <<>>
  /\ ecValid = {}

MathIdle ==
  /\ mtPc = "idle"
  /\ mtIn = <<>>
  /\ mtOut = <<>>

CacheIdle ==
  /\ ckPc = "idle"
  /\ ck = <<>>
  /\ ckRet = <<>>

FnIdle ==
  /\ fnPc = "idle"
  /\ fnIn = <<>>
  /\ fnOut = <<>>

\* a specification of one subsystem starts with the others idle
NumOthersIdle ==
  CodecIdle /\ CoinsIdle /\ BlockIdle /\ VerifyIdle /\ MathIdle /\ CacheIdle /\ FnIdle
CodecOthersIdle ==
  NumIdle /\ CoinsIdle /\ BlockIdle /\ VerifyIdle /\ MathIdle /\ CacheIdle /\ FnIdle
CoinsOthersIdle ==
  NumIdle /\ CodecIdle /\ BlockIdle /\ VerifyIdle /\ MathIdle /\ CacheIdle /\ FnIdle
BlockOthersIdle ==
  NumIdle /\ CodecIdle /\ CoinsIdle /\ VerifyIdle /\ MathIdle /\ CacheIdle /\ FnIdle
VerifyOthersIdle ==
  NumIdle /\ CodecIdle /\ CoinsIdle /\ BlockIdle /\ MathIdle /\ CacheIdle /\ FnIdle
CacheOthersIdle ==
  NumIdle /\ CodecIdle /\ CoinsIdle /\ BlockIdle /\ VerifyIdle /\ MathIdle /\ FnIdle
FnOthersIdle ==
  NumIdle /\ CodecIdle /\ CoinsIdle /\ BlockIdle /\ VerifyIdle /\ MathIdle /\ CacheIdle
MathOthersIdle ==
  NumIdle /\ CodecIdle /\ CoinsIdle /\ BlockIdle /\ VerifyIdle /\ CacheIdle /\ FnIdle

(***************************************************************************)
(* Byte helpers                                                            *)
(***************************************************************************)

\* x & 0x80 (the high bit of a byte)
HighBit(b) == (b \div 128) % 2 = 1

\* x & 0x7f
Low7(b) == b % 128

Abs(n) == IF n < 0 THEN -n ELSE n

Last(s) == s[Len(s)]

\* the shortest little-endian bytes of a natural number
RECURSIVE BytesLE(_)
BytesLE(n) == IF n = 0 THEN <<>> ELSE <<n % 256>> \o BytesLE(n \div 256)

\* the little-endian unsigned value of a byte vector (at most 31 bits here)
RECURSIVE FromLE(_)
FromLE(s) == IF s = <<>> THEN 0 ELSE s[1] + 256 * FromLE(Tail(s))

\* a byte vector without its high-order zero bytes
RECURSIVE StripZeros(_)
StripZeros(s) ==
  IF s = <<>> THEN <<>>
  ELSE IF Last(s) = 0 THEN StripZeros(SubSeq(s, 1, Len(s) - 1))
  ELSE s

(***************************************************************************)
(* Big numbers (bn.js): a sign and a magnitude, the magnitude kept as its  *)
(* shortest little-endian bytes; zero is never negative.                   *)
(***************************************************************************)

BNZero == [neg |-> FALSE, mag |-> <<>>]

\* new BN(n) for a JavaScript number n
BNFromInt(n) == [neg |-> n < 0, mag |-> BytesLE(Abs(n))]

\* bn.toNumber(), for magnitudes below 2^31
BNToInt(bn) == IF bn.neg THEN -FromLE(bn.mag) ELSE FromLE(bn.mag)

BNIsZero(bn) == bn.mag = <<>>

(***************************************************************************)
(* Script numbers                                                          *)
(***************************************************************************)

\* Script.num's default size
NUM_SIZE == 4

ScriptArrayNoSignByte(value) ==
  IF BNIsZero(value) THEN <<>>
  ELSE LET result == value.mag
           n == Len(result)
       IN IF value.neg /\ ~HighBit(result[n])
            THEN [result EXCEPT ![n] = @ + 128]
            ELSE result

\* Script.array: the minimal signed little-endian encoding of a BN
ScriptArray(value) ==
  IF BNIsZero(value) THEN <<>>
  ELSE LET neg == value.neg
           result == value.mag
           n == Len(result)
       IN IF HighBit(result[n])
            THEN Append(result, IF neg THEN 128 ELSE 0)
            ELSE IF neg THEN [result EXCEPT ![n] = @ + 128]
                 ELSE result

\* Script.num: [ok |-> FALSE] stands for the thrown ScriptError('UNKNOWN_ERROR')
ScriptNum(value, flags, size) ==
  LET n == Len(value) IN
  IF n > size THEN [ok |-> FALSE, val |-> BNZero]
  ELSE IF /\ "MINIMALDATA" \in flags
          /\ n > 0
          /\ Low7(value[n]) = 0
          /\ (n = 1 \/ ~HighBit(value[n - 1]))
    THEN [ok |-> FALSE, val |-> BNZero]
  ELSE IF n = 0 THEN [ok |-> TRUE, val |-> BNZero]
  ELSE IF HighBit(value[n])
    THEN LET mag == StripZeros([value EXCEPT ![n] = @ - 128])
         IN [ok |-> TRUE, val |-> [neg |-> mag # <<>>, mag |-> mag]]
    ELSE [ok |-> TRUE, val |-> [neg |-> FALSE, mag |-> StripZeros(value)]]

\* 2^31 - 1
INT32_MAX == 2 * 1073741823 + 1

\* how far around each byte-width boundary the integers are drawn
NumSpread == 3

NumBoundaries == {128, 256, 32768, 65536, 8388608, 16777216}

NumInputs ==
  { s * (b + d) : s \in {-1, 1}, b \in NumBoundaries, d \in (-NumSpread)..NumSpread }
    \cup { s * d : s \in {-1, 1}, d \in 0..NumSpread }
    \cup { s * (INT32_MAX - d) : s \in {-1, 1}, d \in 0..NumSpread }

NumInit ==
  /\ numPc = "init"
  /\ numN \in NumInputs
  /\ numArr = <<>>
  /\ numFlags = {}
  /\ numOut = [ok |-> FALSE, val |-> BNZero]
  /\ NumOthersIdle

\* Script.array(n)
NumEncode ==
  /\ numPc = "init"
  /\ numArr' = ScriptArray(BNFromInt(numN))
  /\ numPc' = "encoded"
  /\ UNCHANGED <<numN, numFlags, numOut>>
  /\ UNCHANGED notNum

\* Script.num(buffer, flags) with the default size
NumDecode ==
  /\ numPc = "encoded"
  /\ \E f \in {{}, {"MINIMALDATA"}} :
       /\ numFlags' = f
       /\ numOut' = ScriptNum(numArr, f, NUM_SIZE)
  /\ numPc' = "decoded"
  /\ UNCHANGED <<numN, numArr>>
  /\ UNCHANGED notNum

NumNext == NumEncode \/ NumDecode

SpecNum == NumInit /\ [][NumNext]_vars

\* C6: for every n in [-2^31+1, 2^31-1], Script.num(Script.array(n)) = n, and
\* Script.array(n) is minimal: empty for 0, at most 4 bytes, and accepted by
\* Script.num with VERIFY_MINIMALDATA set.
C6_NumRoundTrip ==
  (numPc \in {"encoded", "decoded"} /\ numN >= -INT32_MAX /\ numN <= INT32_MAX) =>
     /\ Len(numArr) <= 4
     /\ (numN = 0 <=> numArr = <<>>)
     /\ ScriptNum(numArr, {"MINIMALDATA"}, NUM_SIZE).ok
     /\ (numPc = "decoded" =>
           /\ numOut.ok
           /\ numOut.val = BNFromInt(numN)
           /\ BNToInt(numOut.val) = numN)

C6_Witness ==
  /\ numPc = "decoded"
  /\ numN = -INT32_MAX
  /\ "MINIMALDATA" \in numFlags
  /\ numArr = <<255, 255, 255, 255>>
  /\ numOut.ok

(***************************************************************************)
(* Opcodes and the script serializer                                       *)
(***************************************************************************)

OP_PUSHDATA1 == 76
OP_PUSHDATA2 == 77
OP_PUSHDATA4 == 78

\* the largest opcode that is its own push length (0x4b)
MAX_DIRECT_PUSH == 75

\* new Opcode(value, data) with a push payload
PushOp(value, data) == [value |-> value, push |-> TRUE, data |-> data]

\* new Opcode(value): no payload
PlainOp(value) == [value |-> value, push |-> FALSE, data |-> <<>>]

\* new Opcode(-1): the parse error
ParseErrorOp == PlainOp(-1)

HasParseError(code) == \E i \in 1..Len(code) : code[i].value = -1

\* data[off] for a 0-based offset; a read past the end counts as 0 (the
\* readers check the remaining length themselves)
ByteAt(raw, off) == IF off >= 0 /\ off < Len(raw) THEN raw[off + 1] ELSE 0

\* BufferReader.readU16 / readU32 at a 0-based offset.  A 32-bit size with its
\* top bit set exceeds the length of every buffer; it is read as 2^31 - 1 so
\* that "p.left() < size" keeps its truth value.
ReadU16(raw, off) == ByteAt(raw, off) + 256 * ByteAt(raw, off + 1)

ReadU32(raw, off) ==
  IF ByteAt(raw, off + 3) >= 128 THEN INT32_MAX
  ELSE ByteAt(raw, off) + 256 * ByteAt(raw, off + 1)
         + 65536 * ByteAt(raw, off + 2) + 16777216 * ByteAt(raw, off + 3)

\* BufferWriter.writeU16 / writeU32 (little-endian)
WriteU16(n) == <<n % 256, (n \div 256) % 256>>

WriteU32(n) ==
  <<n % 256, (n \div 256) % 256, (n \div 65536) % 256, (n \div 16777216) % 256>>

\* p.readBytes(size) at a 0-based offset
ReadBytes(raw, off, size) == [i \in 1..size |-> ByteAt(raw, off + i - 1)]

\* Script.decode, from the 0-based reader offset off
RECURSIVE DecodeFrom(_, _)
DecodeFrom(raw, off) ==
  LET left == Len(raw) - off IN
  IF left = 0 THEN <<>>
  ELSE
    LET op == raw[off + 1]
        left1 == left - 1
    IN
    IF op >= 1 /\ op <= MAX_DIRECT_PUSH THEN
      IF left1 < op THEN <<ParseErrorOp>>
      ELSE <<PushOp(op, ReadBytes(raw, off + 1, op))>>
             \o DecodeFrom(raw, off + 1 + op)
    ELSE IF op = OP_PUSHDATA1 THEN
      IF left1 < 1 THEN <<ParseErrorOp>>
      ELSE LET size == raw[off + 2] IN
           IF left1 - 1 < size THEN <<ParseErrorOp>>
           ELSE <<PushOp(op, ReadBytes(raw, off + 2, size))>>
                  \o DecodeFrom(raw, off + 2 + size)
    ELSE IF op = OP_PUSHDATA2 THEN
      IF left1 < 2 THEN <<ParseErrorOp>>
      ELSE LET size == ReadU16(raw, off + 1) IN
           IF left1 - 2 < size THEN <<ParseErrorOp>>
           ELSE <<PushOp(op, ReadBytes(raw, off + 3, size))>>
                  \o DecodeFrom(raw, off + 3 + size)
    ELSE IF op = OP_PUSHDATA4 THEN
      IF left1 < 4 THEN <<ParseErrorOp>>
      ELSE LET size == ReadU32(raw, off + 1) IN
           IF left1 - 4 < size THEN <<ParseErrorOp>>
           ELSE <<PushOp(op, ReadBytes(raw, off + 5, size))>>
                  \o DecodeFrom(raw, off + 5 + size)
    ELSE <<PlainOp(op)>> \o DecodeFrom(raw, off + 1)

ScriptDecode(raw) == DecodeFrom(raw, 0)

\* one iteration of Script.encode's loop: the bytes written for one opcode that
\* is neither a parse error nor an unknown pushdata opcode
EncodeOp(op) ==
  IF op.push THEN
    IF op.value <= MAX_DIRECT_PUSH THEN <<Len(op.data)>> \o op.data
    ELSE IF op.value = OP_PUSHDATA1 THEN <<OP_PUSHDATA1, Len(op.data)>> \o op.data
    ELSE IF op.value = OP_PUSHDATA2
      THEN <<OP_PUSHDATA2>> \o WriteU16(Len(op.data)) \o op.data
    ELSE <<OP_PUSHDATA4>> \o WriteU32(Len(op.data)) \o op.data
  ELSE <<op.value>>

\* the opcodes at which Script.encode throws
EncodeThrows(op) ==
  \/ op.value = -1
  \/ op.push /\ op.value > MAX_DIRECT_PUSH
       /\ op.value \notin {OP_PUSHDATA1, OP_PUSHDATA2, OP_PUSHDATA4}

RECURSIVE EncodeBytes(_)
EncodeBytes(code) ==
  IF code = <<>> THEN <<>> ELSE EncodeOp(Head(code)) \o EncodeBytes(Tail(code))

EncodeIgnoresParseError(code) ==
  [ok |-> TRUE,
   raw |-> EncodeBytes(SelectSeq(code, LAMBDA op : ~EncodeThrows(op)))]

\* Script.encode: [ok |-> FALSE] stands for the thrown Error
ScriptEncode(code) ==
  IF \E i \in 1..Len(code) : EncodeThrows(code[i])
    THEN [ok |-> FALSE, raw |-> <<>>]
    ELSE [ok |-> TRUE, raw |-> EncodeBytes(code)]

\* the longest serialized script drawn
MaxRawLen == 5

\* the bytes serialized scripts are drawn from: OP_0, the direct pushes of one
\* and two bytes, the three PUSHDATA opcodes and OP_CHECKSIG
CodecBytes == {0, 1, 2, OP_PUSHDATA1, OP_PUSHDATA2, OP_PUSHDATA4, 172}

CodecInputs == UNION { [1..n -> CodecBytes] : n \in 0..MaxRawLen }

CodecInit ==
  /\ cdPc = "init"
  /\ cdRaw \in CodecInputs
  /\ cdCode = <<>>
  /\ cdEnc = <<>>
  /\ cdCode2 = <<>>
  /\ CodecOthersIdle

\* code = Script.decode(b)
CodecDecode ==
  /\ cdPc = "init"
  /\ cdCode' = ScriptDecode(cdRaw)
  /\ cdPc' = "decoded"
  /\ UNCHANGED <<cdRaw, cdEnc, cdCode2>>
  /\ UNCHANGED notCodec

\* Script.encode(code) returns the bytes
CodecEncode ==
  /\ cdPc = "decoded"
  /\ ScriptEncode(cdCode).ok
  /\ cdEnc' = ScriptEncode(cdCode).raw
  /\ cdPc' = "encoded"
  /\ UNCHANGED <<cdRaw, cdCode, cdCode2>>
  /\ UNCHANGED notCodec

\* Script.encode(code) throws
CodecEncodeThrows ==
  /\ cdPc = "decoded"
  /\ ~ScriptEncode(cdCode).ok
  /\ cdPc' = "refused"
  /\ UNCHANGED <<cdRaw, cdCode, cdEnc, cdCode2>>
  /\ UNCHANGED notCodec

\* Script.decode of the re-encoded bytes
CodecRedecode ==
  /\ cdPc = "encoded"
  /\ cdCode2' = ScriptDecode(cdEnc)
  /\ cdPc' = "redecoded"
  /\ UNCHANGED <<cdRaw, cdCode, cdEnc>>
  /\ UNCHANGED notCodec

CodecNext == CodecDecode \/ CodecEncode \/ CodecEncodeThrows \/ CodecRedecode

SpecCodec == CodecInit /\ [][CodecNext]_vars

\* C1: for every byte string b, when Script.decode(b) holds no parse error,
\* Script.encode(Script.decode(b)) is b byte for byte and decoding it again
\* gives the same opcodes; when it holds one, it is the last opcode (decoding
\* stopped there) and Script.encode refuses to serialize the code.
C1_CodecRoundTrip ==
  /\ cdPc \in {"encoded", "redecoded"} =>
       ~HasParseError(cdCode) /\ cdEnc = cdRaw
  /\ cdPc = "redecoded" => cdCode2 = cdCode
  /\ cdPc = "refused" =>
       /\ HasParseError(cdCode)
       /\ cdCode[Len(cdCode)].value = -1
       /\ \A i \in 1..(Len(cdCode) - 1) : cdCode[i].value # -1
  /\ (cdPc = "decoded" /\ HasParseError(cdCode)) => ~ScriptEncode(cdCode).ok

\* a PUSHDATA2 push of one byte after an OP_0 went through the round trip
C1_Witness ==
  /\ cdPc = "redecoded"
  /\ cdRaw = <<0, OP_PUSHDATA2, 1, 0, 172>>
  /\ cdCode2 = <<PlainOp(0), PushOp(OP_PUSHDATA2, <<172>>)>>

(***************************************************************************)
(* Coins: the per-transaction set of unspent outputs and its codec         *)
(***************************************************************************)

\* BufferWriter.writeVarint: the compact-size integer (values below 2^31)
WriteVarint(n) ==
  IF n < 253 THEN <<n>>
  ELSE IF n <= 65535 THEN <<253>> \o WriteU16(n)
  ELSE <<254>> \o WriteU32(n)

\* BufferReader.readVarint at a 0-based offset: the value and the bytes read
ReadVarint(raw, off) ==
  LET b == ByteAt(raw, off) IN
  IF b < 253 THEN [value |-> b, size |-> 1]
  ELSE IF b = 253 THEN [value |-> ReadU16(raw, off + 1), size |-> 3]
  ELSE [value |-> ReadU32(raw, off + 1), size |-> 5]

\* a 20-byte hash and a 33-byte compressed public key
Hash20(b) == [i \in 1..20 |-> b]
Key33(b) == [i \in 1..33 |-> IF i = 1 THEN 2 ELSE b]

\* OP_DUP OP_HASH160 <20> OP_EQUALVERIFY OP_CHECKSIG
P2PKHRaw(hash) == <<118, 169, 20>> \o hash \o <<136, 172>>
\* OP_HASH160 <20> OP_EQUAL
P2SHRaw(hash) == <<169, 20>> \o hash \o <<135>>
\* <33> OP_CHECKSIG
P2PKRaw(key) == <<33>> \o key \o <<172>>

IsP2PKHRaw(raw) ==
  /\ Len(raw) = 25
  /\ raw[1] = 118 /\ raw[2] = 169 /\ raw[3] = 20
  /\ raw[24] = 136 /\ raw[25] = 172

IsP2SHRaw(raw) ==
  /\ Len(raw) = 23
  /\ raw[1] = 169 /\ raw[2] = 20 /\ raw[23] = 135

IsP2PKRaw(raw) ==
  /\ Len(raw) = 35
  /\ raw[1] = 33 /\ raw[2] \in {2, 3} /\ raw[35] = 172

\* compress.script(script, p): the prefix byte and the payload
CompressScript(raw) ==
  IF IsP2PKHRaw(raw) THEN <<1>> \o SubSeq(raw, 4, 23)
  ELSE IF IsP2SHRaw(raw) THEN <<2>> \o SubSeq(raw, 3, 22)
  ELSE IF IsP2PKRaw(raw) THEN <<3>> \o SubSeq(raw, 2, 34)
  ELSE <<0>> \o WriteVarint(Len(raw)) \o raw

\* decompress.script(p, script) at a 0-based offset: the script and the bytes read
DecompressScript(raw, off) ==
  LET prefix == ByteAt(raw, off) IN
  IF prefix = 1
    THEN [script |-> P2PKHRaw(ReadBytes(raw, off + 1, 20)), size |-> 21]
  ELSE IF prefix = 2
    THEN [script |-> P2SHRaw(ReadBytes(raw, off + 1, 20)), size |-> 21]
  ELSE IF prefix = 3
    THEN [script |-> P2PKRaw(ReadBytes(raw, off + 1, 33)), size |-> 34]
  ELSE LET v == ReadVarint(raw, off + 1) IN
       [script |-> ReadBytes(raw, off + 1 + v.size, v.value),
        size |-> 1 + v.size + v.value]

\* a Coin: the output with the fields of its transaction
CoinRec(version, coinbase, height, hash, index, script, value) ==
  [version |-> version, coinbase |-> coinbase, height |-> height,
   hash |-> hash, index |-> index, script |-> script, value |-> value]

NoCoin == CoinRec(0, FALSE, 0, "", 0, <<>>, 0)

\* the entries of Coins.outputs: null, a Coin, or a CompressedCoin
NullEntry ==
  [kind |-> "null", coin |-> NoCoin, offset |-> 0, size |-> 0, raw |-> <<>>]
CoinEntry(coin) ==
  [kind |-> "coin", coin |-> coin, offset |-> 0, size |-> 0, raw |-> <<>>]
\* new CompressedCoin(offset, size, raw)
CompressedEntry(offset, size, raw) ==
  [kind |-> "compressed", coin |-> NoCoin, offset |-> offset, size |-> size,
   raw |-> raw]

\* CompressedCoin.prototype.toCoin
ToCoin(entry, coins, index) ==
  LET sc == DecompressScript(entry.raw, entry.offset)
      v == ReadVarint(entry.raw, entry.offset + sc.size)
  IN CoinRec(coins.version, coins.coinbase, coins.height, coins.hash, index,
             sc.script, v.value)

\* a slice that starts at the beginning of the buffer
CompressedToRawFromStart(entry) == ReadBytes(entry.raw, 0, entry.size)

\* CompressedCoin.prototype.toRaw
CompressedToRaw(entry) == ReadBytes(entry.raw, entry.offset, entry.size)

\* what a lookup returns: a coin, or nothing (undefined)
Found(coin) == [found |-> TRUE, coin |-> coin]
Nothing == [found |-> FALSE, coin |-> NoCoin]

\* Coins.prototype.has
CoinsHas(coins, index) ==
  index + 1 <= Len(coins.outputs) /\ coins.outputs[index + 1].kind # "null"

\* Coins.prototype.get (indexes are 0-based as in the source)
CoinsGet(coins, index) ==
  IF ~CoinsHas(coins, index) THEN Nothing
  ELSE LET e == coins.outputs[index + 1] IN
       IF e.kind = "compressed" THEN Found(ToCoin(e, coins, index))
       ELSE Found(e.coin)

\* a spend that returns the coin and leaves it where it is
CoinsSpendKeeps(coins, index) ==
  [coins |-> coins, ret |-> CoinsGet(coins, index)]

\* Coins.prototype.spend: the Coins after the call and what it returns
CoinsSpend(coins, index) ==
  LET r == CoinsGet(coins, index) IN
  IF ~r.found THEN [coins |-> coins, ret |-> Nothing]
  ELSE [coins |-> [coins EXCEPT !.outputs[index + 1] = NullEntry], ret |-> r]

\* Coins.prototype.size: one plus the index of the last unspent output
RECURSIVE SizeFrom(_, _)
SizeFrom(outputs, i) ==
  IF i = 0 THEN 0
  ELSE IF outputs[i].kind # "null" THEN i
  ELSE SizeFrom(outputs, i - 1)

CoinsSize(coins) == SizeFrom(coins.outputs, Len(coins.outputs))

\* Coins.prototype.count
CoinsCount(coins) ==
  Cardinality({i \in 1..Len(coins.outputs) : coins.outputs[i].kind # "null"})

\* the uint32 (height << 1) | coinbase as its four little-endian bytes, for a
\* height in 0 .. 2^31 - 1
WriteBits(height, coinbase) ==
  <<2 * (height % 128) + (IF coinbase THEN 1 ELSE 0),
    (height \div 128) % 256,
    (height \div 32768) % 256,
    (height \div 8388608) % 256>>

\* bits >>> 1 and bits & 1 of the uint32 at a 0-based offset
ReadHeight(raw, off) ==
  (ByteAt(raw, off) \div 2) + 128 * ByteAt(raw, off + 1)
    + 32768 * ByteAt(raw, off + 2) + 8388608 * ByteAt(raw, off + 3)

ReadCoinbase(raw, off) == ByteAt(raw, off) % 2 = 1

\* 1 << (7 - bit)
RECURSIVE Pow2(_)
Pow2(e) == IF e = 0 THEN 1 ELSE 2 * Pow2(e - 1)

\* a spent byte filled from its lowest bit
RECURSIVE SpentByteLowFirst(_, _, _, _)
SpentByteLowFirst(outputs, length, oct, bit) ==
  IF bit = 8 THEN 0
  ELSE LET i == 8 * oct + bit IN
       (IF i < length /\ outputs[i + 1].kind = "null" THEN Pow2(bit) ELSE 0)
         + SpentByteLowFirst(outputs, length, oct, bit + 1)

\* one byte of the spent field: the bits toRaw sets for the spent outputs
RECURSIVE SpentByte(_, _, _, _)
SpentByte(outputs, length, oct, bit) ==
  IF bit = 8 THEN 0
  ELSE LET i == 8 * oct + bit IN
       (IF i < length /\ outputs[i + 1].kind = "null" THEN Pow2(7 - bit) ELSE 0)
         + SpentByte(outputs, length, oct, bit + 1)

SpentField(outputs, length, flen) ==
  [oct \in 1..flen |-> SpentByte(outputs, length, oct - 1, 0)]

\* the first loop of toRaw: the unspent outputs in order
RECURSIVE OutputBytes(_, _, _)
OutputBytes(outputs, i, length) ==
  IF i >= length THEN <<>>
  ELSE LET output == outputs[i + 1] IN
       (IF output.kind = "null" THEN <<>>
        ELSE IF output.kind = "compressed" THEN CompressedToRaw(output)
        ELSE CompressScript(output.coin.script) \o WriteVarint(output.coin.value))
         \o OutputBytes(outputs, i + 1, length)

\* a spent field one byte short whenever length is not a multiple of 8
FloorDiv8(length) == length \div 8

\* Math.ceil(length / 8)
CeilDiv8(length) == (length + 7) \div 8

\* Coins.prototype.toRaw called without a writer: [set |-> FALSE] is the
\* undefined it returns for a fully spent Coins
CoinsToRawBuf(coins) ==
  LET length == CoinsSize(coins)
      height == IF coins.height = -1 THEN INT32_MAX ELSE coins.height
      flen == CeilDiv8(length)
  IN IF length = 0 THEN [set |-> FALSE, raw |-> <<>>]
     ELSE [set |-> TRUE,
           raw |-> WriteVarint(coins.version)
                     \o WriteBits(height, coins.coinbase)
                     \o WriteVarint(flen)
                     \o SpentField(coins.outputs, length, flen)
                     \o OutputBytes(coins.outputs, 0, length)]

\* the bytes fromRaw skips for one compressed output at a 0-based offset;
\* -1 stands for the thrown Error('Bad prefix.')
SkipSize(data, off) ==
  LET prefix == ByteAt(data, off) IN
  IF prefix = 0
    THEN LET v == ReadVarint(data, off + 1)
             after == off + 1 + v.size + v.value
         IN 1 + v.size + v.value + ReadVarint(data, after).size
  ELSE IF prefix \in {1, 2} THEN 21 + ReadVarint(data, off + 21).size
  ELSE IF prefix = 3 THEN 34 + ReadVarint(data, off + 34).size
  ELSE -1

NoIndex == -1

\* what fromRaw's loop ends with: the outputs pushed, the coin returned to a
\* call with an index, and whether it threw (a bad prefix, or a read past the
\* end of the buffer, which the reader refuses)
LoopResult(outputs, ret, threw) ==
  [outputs |-> outputs, ret |-> ret, threw |-> threw]

\* a loop that answers null at the first spent output it meets when called
\* with an index, whichever output that is
RECURSIVE FromRawLoopStopsAtSpent(_, _, _, _, _, _, _)
FromRawLoopStopsAtSpent(data, self, fstart, off, i, outputs, index) ==
  IF Len(data) - off <= 0 THEN LoopResult(outputs, Nothing, FALSE)
  ELSE
    LET bit == i % 8
        oct == (i - bit) \div 8
        spent == (ByteAt(data, fstart + oct) \div Pow2(7 - bit)) % 2
    IN
    IF spent = 1 THEN
      IF index # NoIndex THEN
        LoopResult(outputs, Nothing, FALSE)
      ELSE FromRawLoopStopsAtSpent(data, self, fstart, off, i + 1,
                       Append(outputs, NullEntry), index)
    ELSE
      LET size == SkipSize(data, off)
          coin == CompressedEntry(off, size, data)
      IN
      IF size < 0 \/ off + size > Len(data)
        THEN LoopResult(outputs, Nothing, TRUE)
      ELSE IF index # NoIndex /\ i # index
        THEN FromRawLoopStopsAtSpent(data, self, fstart, off + size, i + 1, outputs, index)
      ELSE IF index # NoIndex
        THEN LoopResult(outputs, Found(ToCoin(coin, self, i)), FALSE)
      ELSE FromRawLoopStopsAtSpent(data, self, fstart, off + size, i + 1,
                       Append(outputs, coin), index)

\* the while loop of Coins.prototype.fromRaw; index = NoIndex is the call
\* without an index
RECURSIVE FromRawLoop(_, _, _, _, _, _, _)
FromRawLoop(data, self, fstart, off, i, outputs, index) ==
  IF Len(data) - off <= 0 THEN LoopResult(outputs, Nothing, FALSE)
  ELSE
    LET bit == i % 8
        oct == (i - bit) \div 8
        spent == (ByteAt(data, fstart + oct) \div Pow2(7 - bit)) % 2
    IN
    IF spent = 1 THEN
      IF index # NoIndex THEN
        IF i = index THEN LoopResult(outputs, Nothing, FALSE)
        ELSE FromRawLoop(data, self, fstart, off, i + 1, outputs, index)
      ELSE FromRawLoop(data, self, fstart, off, i + 1,
                       Append(outputs, NullEntry), index)
    ELSE
      LET size == SkipSize(data, off)
          coin == CompressedEntry(off, size, data)
      IN
      IF size < 0 \/ off + size > Len(data)
        THEN LoopResult(outputs, Nothing, TRUE)
      ELSE IF index # NoIndex /\ i # index
        THEN FromRawLoop(data, self, fstart, off + size, i + 1, outputs, index)
      ELSE IF index # NoIndex
        THEN LoopResult(outputs, Found(ToCoin(coin, self, i)), FALSE)
      ELSE FromRawLoop(data, self, fstart, off + size, i + 1,
                       Append(outputs, coin), index)

\* Coins.prototype.fromRaw on a new Coins(): [coins, ret, threw]
CoinsFromRaw(data, hash, index) ==
  LET v == ReadVarint(data, 0)
      h == ReadHeight(data, v.size)
      self == [version |-> v.value,
               hash |-> hash,
               height |-> IF h = INT32_MAX THEN -1 ELSE h,
               coinbase |-> ReadCoinbase(data, v.size),
               outputs |-> <<>>]
      f == ReadVarint(data, v.size + 4)
      fstart == v.size + 4 + f.size
      r == IF fstart + f.value > Len(data)
             THEN LoopResult(<<>>, Nothing, TRUE)
             ELSE FromRawLoop(data, self, fstart, fstart + f.value, 0, <<>>, index)
  IN [coins |-> [self EXCEPT !.outputs = r.outputs], ret |-> r.ret,
      threw |-> r.threw]

\* Coins.parseCoin
ParseCoin(data, hash, index) == CoinsFromRaw(data, hash, index)

(***************************************************************************)
(* The Coins objects serialized: built as fromTX builds them, every output *)
(* a decoded Coin carrying the fields of its transaction, or null.         *)
(***************************************************************************)

\* the largest output index that can hold an unspent output
MaxIndex == 8

\* the largest number of unspent outputs
MaxUnspent == 2

\* version, height and coinbase flag of the transactions
CoinsHeaders ==
  { [version |-> 1, height |-> -1, coinbase |-> TRUE],
    [version |-> 2, height |-> 0, coinbase |-> FALSE],
    [version |-> 253, height |-> 1073741829, coinbase |-> TRUE] }

\* the (script, value) pairs of the outputs: a pay-to-pubkey-hash, a
\* pay-to-script-hash, a pay-to-pubkey and a script stored raw
CoinMenu ==
  << [script |-> P2PKHRaw(Hash20(17)), value |-> 1],
     [script |-> P2SHRaw(Hash20(18)), value |-> 253],
     [script |-> P2PKRaw(Key33(34)), value |-> 0],
     [script |-> <<81, 135>>, value |-> 65536] >>

\* output k takes the menu's entries in rotation, starting at `shift`
PickCoin(k, shift) == CoinMenu[((k + shift) % Len(CoinMenu)) + 1]

UnspentSets == {U \in SUBSET (0..MaxIndex) : Cardinality(U) <= MaxUnspent}

SetMax(U) == CHOOSE x \in U : \A y \in U : y <= x

\* the outputs of a transaction whose spendable outputs are those of U, with
\* `trailing` unspendable outputs after the last of them
BuildOutputs(hdr, hash, U, shift, trailing) ==
  LET n == (IF U = {} THEN 0 ELSE SetMax(U) + 1) + trailing IN
  [k \in 1..n |->
     IF (k - 1) \in U
       THEN CoinEntry(CoinRec(hdr.version, hdr.coinbase, hdr.height, hash,
                              k - 1, PickCoin(k - 1, shift).script,
                              PickCoin(k - 1, shift).value))
       ELSE NullEntry]

NoRet == [op |-> "none", index |-> 0, found |-> FALSE, coin |-> NoCoin]
NoBuf == [set |-> FALSE, raw |-> <<>>]

CoinsInit ==
  /\ cnPc = "built"
  /\ \E hdr \in CoinsHeaders, U \in UnspentSets, trailing \in {0, 1} :
       \E shift \in 0..(Len(CoinMenu) - 1) :
         cn = [version |-> hdr.version, hash |-> "txid", height |-> hdr.height,
               coinbase |-> hdr.coinbase,
               outputs |-> BuildOutputs(hdr, "txid", U, shift, trailing)]
  /\ cnSrc = cn
  /\ cnBuf = NoBuf
  /\ cnRet = NoRet
  /\ cnBuf2 = NoBuf
  /\ CoinsOthersIdle

\* buf = coins.toRaw()
CoinsToRaw ==
  /\ cnPc = "built"
  /\ cnBuf' = CoinsToRawBuf(cn)
  /\ cnSrc' = cn
  /\ cnPc' = IF CoinsToRawBuf(cn).set THEN "serialized" ELSE "spent"
  /\ UNCHANGED <<cn, cnRet, cnBuf2>>
  /\ UNCHANGED notCoins

\* coins = Coins.fromRaw(buf, hash)
CoinsLoad ==
  /\ cnPc = "serialized"
  /\ LET r == CoinsFromRaw(cnBuf.raw, cnSrc.hash, NoIndex) IN
       /\ cn' = r.coins
       /\ cnPc' = IF r.threw THEN "threw" ELSE "loaded"
  /\ UNCHANGED <<cnSrc, cnBuf, cnRet, cnBuf2>>
  /\ UNCHANGED notCoins

\* the indexes spend is called with: those of the unspent outputs, the first
\* one and one beyond the last
ModifiedIndexes(coins) ==
  {i \in 0..(MaxIndex + 2) : CoinsHas(coins, i)} \cup {0, Len(coins.outputs)}

\* coins.get(index) on the loaded Coins: at every index before anything was
\* spent, at the indexes of the outputs still unspent after
CoinsGetCall ==
  /\ cnPc \in {"loaded", "modified"}
  /\ \E index \in 0..(MaxIndex + 2) :
       LET r == CoinsGet(cn, index) IN
       /\ cnPc = "modified" => CoinsHas(cn, index)
       /\ cnRet' = [op |-> "get", index |-> index, found |-> r.found,
                    coin |-> r.coin]
  /\ cnPc' = IF cnPc = "loaded" THEN "queried" ELSE "modified"
  /\ UNCHANGED <<cn, cnSrc, cnBuf, cnBuf2>>
  /\ UNCHANGED notCoins

\* a get has just returned a coin of the loaded Coins
CoinReturned == cnPc = "queried" /\ cnRet.op = "get" /\ cnRet.found

\* coins.spend(index) on the loaded Coins: first at any of these indexes,
\* then at those of outputs still unspent
CoinsSpendCall ==
  /\ cnPc \in {"loaded", "modified"} \/ CoinReturned
  /\ \E index \in ModifiedIndexes(cn) :
       LET r == CoinsSpend(cn, index) IN
       /\ cnPc = "modified" => CoinsHas(cn, index)
       /\ cn' = r.coins
       /\ cnRet' = [op |-> "spend", index |-> index, found |-> r.ret.found,
                    coin |-> r.ret.coin]
  /\ cnPc' = "modified"
  /\ UNCHANGED <<cnSrc, cnBuf, cnBuf2>>
  /\ UNCHANGED notCoins

\* buf2 = coins.toRaw() on the loaded Coins
CoinsToRawLoaded ==
  /\ cnPc \in {"loaded", "modified"} \/ CoinReturned
  /\ cnBuf2' = CoinsToRawBuf(cn)
  /\ cnRet' = [op |-> "toRaw", index |-> 0, found |-> CoinsToRawBuf(cn).set,
               coin |-> NoCoin]
  /\ cnPc' = "reserialized"
  /\ UNCHANGED <<cn, cnSrc, cnBuf>>
  /\ UNCHANGED notCoins

\* Coins.parseCoin(buf, hash, index)
CoinsParseCoinCall ==
  /\ cnPc = "loaded"
  /\ \E index \in 0..(MaxIndex + 2) :
       LET r == ParseCoin(cnBuf.raw, cnSrc.hash, index) IN
       cnRet' = [op |-> IF r.threw THEN "parseCoinThrew" ELSE "parseCoin",
                 index |-> index, found |-> r.ret.found, coin |-> r.ret.coin]
  /\ cnPc' = "queried"
  /\ UNCHANGED <<cn, cnSrc, cnBuf, cnBuf2>>
  /\ UNCHANGED notCoins

CoinsNext ==
  \/ CoinsToRaw
  \/ CoinsLoad
  \/ CoinsGetCall
  \/ CoinsParseCoinCall
  \/ CoinsSpendCall
  \/ CoinsToRawLoaded

SpecCoins == CoinsInit /\ [][CoinsNext]_vars

\* output i of the serialized Coins is unspent
SrcUnspent(i) == CoinsHas(cnSrc, i)

\* C2: a Coins with at least one unspent output and all outputs decoded comes
\* back from fromRaw(toRaw()) with the same version, height (-1 included) and
\* coinbase flag, with the same spent/unspent status at every index and the
\* same script and value at every unspent one; the loaded outputs list is
\* size() long.
C2_CoinsRoundTrip ==
  /\ cnPc # "threw"
  /\ cnPc \in {"loaded", "queried"} =>
       /\ cn.version = cnSrc.version
       /\ cn.height = cnSrc.height
       /\ cn.coinbase = cnSrc.coinbase
       /\ cn.hash = cnSrc.hash
       /\ Len(cn.outputs) = CoinsSize(cnSrc)
       /\ \A i \in 0..(MaxIndex + 2) : CoinsHas(cn, i) <=> SrcUnspent(i)
  /\ (cnRet.op = "get" /\ cnPc = "queried") =>
       /\ cnRet.found <=> SrcUnspent(cnRet.index)
       /\ cnRet.found =>
            /\ cnRet.coin.script = cnSrc.outputs[cnRet.index + 1].coin.script
            /\ cnRet.coin.value = cnSrc.outputs[cnRet.index + 1].coin.value

\* an unconfirmed coinbase with outputs 1 and 8 unspent was loaded and its
\* output 8, behind a two-byte spent field, was read back
C2_Witness ==
  /\ cnPc = "queried"
  /\ cnSrc.height = -1
  /\ Len(cnSrc.outputs) = 10
  /\ CoinsCount(cnSrc) = 2
  /\ SrcUnspent(1) /\ SrcUnspent(8)
  /\ cnRet.op = "get" /\ cnRet.index = 8 /\ cnRet.found
  /\ cnRet.coin.value = 253

\* C3: on a buffer produced by toRaw, parseCoin(buffer, hash, i) returns the
\* coin that fromRaw(buffer, hash).get(i) returns, and returns nothing exactly
\* when output i is spent or lies beyond the last serialized output.
C3_ParseCoinIsGet ==
  /\ cnRet.op # "parseCoinThrew"
  /\ cnRet.op = "parseCoin" =>
       /\ cnRet.found = CoinsGet(cn, cnRet.index).found
       /\ cnRet.coin = CoinsGet(cn, cnRet.index).coin
       /\ ~cnRet.found <=>
            \/ cnRet.index >= CoinsSize(cnSrc)
            \/ cnSrc.outputs[cnRet.index + 1].kind = "null"
       /\ cnRet.found =>
            cnRet.coin = cnSrc.outputs[cnRet.index + 1].coin

\* parseCoin found output 8 behind a spent output 0 and an unspent output 3
C3_Witness ==
  /\ cnRet.op = "parseCoin"
  /\ cnRet.index = 8
  /\ cnRet.found
  /\ ~SrcUnspent(0) /\ SrcUnspent(3)
  /\ cnRet.coin.index = 8
  /\ cnRet.coin.script = P2PKRaw(Key33(34))

(***************************************************************************)
(* Block._verify (lib/primitives/block.js).  A transaction is what _verify *)
(* asks of it: hash(), isCoinbase(), isSane(), getLegacySigops() and the   *)
(* bytes it adds to the block without its witness.                         *)
(***************************************************************************)

MAX_BLOCK_SIZE == 1000000
WITNESS_SCALE_FACTOR == 4
MAX_SIGOPS_WEIGHT == 80000
HEADER_SIZE == 80

\* the ret object and the boolean _verify returns
Ret(ok, reason, score) == [ok |-> ok, reason |-> reason, score |-> score]
Valid == Ret(TRUE, "", 0)
Invalid(reason, score) == Ret(FALSE, reason, score)

\* a transaction hash as a leaf of the tree, and the hash of two nodes, taken
\* to be free of collisions
Leaf(h) == <<h>>
HashPair(left, right) == <<left, right>>

\* the leaves Block.getMerkleRoot hands to crypto.getMerkleRoot
Leaves(txs) == [i \in 1..Len(txs) |-> Leaf(txs[i].hash)]

\* one level up: pairs hashed together, the last node paired with itself when
\* the level is odd
NextLevel(nodes) ==
  LET n == Len(nodes) IN
  [k \in 1..((n + 1) \div 2) |->
     HashPair(nodes[2 * k - 1], nodes[IF 2 * k <= n THEN 2 * k ELSE n])]

\* two distinct adjacent nodes of one pair are equal
LevelMutated(nodes) ==
  \E k \in 1..(Len(nodes) \div 2) : nodes[2 * k - 1] = nodes[2 * k]

\* the root the tree of hashes has, mutation or not
RECURSIVE RawMerkleRoot(_)
RawMerkleRoot(nodes) ==
  IF Len(nodes) = 1 THEN nodes[1] ELSE RawMerkleRoot(NextLevel(nodes))

RECURSIVE MerkleMutated(_)
MerkleMutated(nodes) ==
  IF Len(nodes) <= 1 THEN FALSE
  ELSE LevelMutated(nodes) \/ MerkleMutated(NextLevel(nodes))

\* crypto.getMerkleRoot: no root for no leaves or for a mutated tree
CryptoGetMerkleRoot(leaves) ==
  IF Len(leaves) = 0 \/ MerkleMutated(leaves)
    THEN [found |-> FALSE, root |-> <<>>]
    ELSE [found |-> TRUE, root |-> RawMerkleRoot(leaves)]

\* Block.prototype.getMerkleRoot
GetMerkleRoot(b) == CryptoGetMerkleRoot(Leaves(b.txs))

\* Block.prototype.getBaseSize: the header, the one-byte count and the
\* transactions without their witnesses
RECURSIVE SumBaseSize(_, _)
SumBaseSize(txs, i) ==
  IF i > Len(txs) THEN 0 ELSE txs[i].baseSize + SumBaseSize(txs, i + 1)

GetBaseSize(b) == HEADER_SIZE + 1 + SumBaseSize(b.txs, 1)

\* a loop over the transactions that lets a second coinbase through
RECURSIVE TxLoopAnyCoinbase(_, _, _)
TxLoopAnyCoinbase(txs, i, sigops) ==
  IF i >= Len(txs) THEN Valid
  ELSE LET tx == txs[i + 1]
           total == sigops + tx.sigops
       IN
       IF ~tx.sane THEN Invalid(tx.reason, tx.score)
       ELSE IF total * WITNESS_SCALE_FACTOR > MAX_SIGOPS_WEIGHT
         THEN Invalid("bad-blk-sigops", 100)
       ELSE TxLoopAnyCoinbase(txs, i + 1, total)

\* a loop that tests the limit of sigops on each transaction alone
RECURSIVE TxLoopPerTransaction(_, _, _)
TxLoopPerTransaction(txs, i, sigops) ==
  IF i >= Len(txs) THEN Valid
  ELSE LET tx == txs[i + 1] IN
       IF i > 0 /\ tx.coinbase THEN Invalid("bad-cb-multiple", 100)
       ELSE IF ~tx.sane THEN Invalid(tx.reason, tx.score)
       ELSE IF tx.sigops * WITNESS_SCALE_FACTOR > MAX_SIGOPS_WEIGHT
         THEN Invalid("bad-blk-sigops", 100)
       ELSE TxLoopPerTransaction(txs, i + 1, sigops)

\* the loop of _verify over the transactions, from index i with the sigops
\* counted so far: the first failure, or Valid
RECURSIVE TxLoop(_, _, _)
TxLoop(txs, i, sigops) ==
  IF i >= Len(txs) THEN Valid
  ELSE LET tx == txs[i + 1]
           total == sigops + tx.sigops
       IN
       IF i > 0 /\ tx.coinbase THEN Invalid("bad-cb-multiple", 100)
       ELSE IF ~tx.sane THEN Invalid(tx.reason, tx.score)
       ELSE IF total * WITNESS_SCALE_FACTOR > MAX_SIGOPS_WEIGHT
         THEN Invalid("bad-blk-sigops", 100)
       ELSE TxLoop(txs, i + 1, total)

\* a merkle check that compares the header with the root of the tree before
\* it looks at the mutation
MerkleCheckComparesFirst(b) ==
  IF b.merkleRoot = RawMerkleRoot(Leaves(b.txs)) THEN Valid
  ELSE IF ~GetMerkleRoot(b).found THEN Invalid("bad-txns-duplicate", 100)
  ELSE Invalid("bad-txnmrklroot", 100)

\* the end of _verify: the merkle root
MerkleCheck(b) ==
  LET merkle == GetMerkleRoot(b) IN
  IF ~merkle.found THEN Invalid("bad-txns-duplicate", 100)
  ELSE IF b.merkleRoot # merkle.root THEN Invalid("bad-txnmrklroot", 100)
  ELSE Valid

\* a _verify that looks for the coinbase before it looks at the size
BlockVerifyRetCoinbaseFirst(b) ==
  IF ~b.headersOk THEN Invalid("high-hash", 50)
  ELSE IF Len(b.txs) = 0 \/ ~b.txs[1].coinbase
    THEN Invalid("bad-cb-missing", 100)
  ELSE IF Len(b.txs) > MAX_BLOCK_SIZE \/ GetBaseSize(b) > MAX_BLOCK_SIZE
    THEN Invalid("bad-blk-length", 100)
  ELSE IF ~TxLoop(b.txs, 0, 0).ok THEN TxLoop(b.txs, 0, 0)
  ELSE MerkleCheck(b)

\* Block.prototype._verify
BlockVerifyRet(b) ==
  IF ~b.headersOk THEN Invalid("high-hash", 50)
  ELSE IF Len(b.txs) > MAX_BLOCK_SIZE \/ GetBaseSize(b) > MAX_BLOCK_SIZE
    THEN Invalid("bad-blk-length", 100)
  ELSE IF Len(b.txs) = 0 \/ ~b.txs[1].coinbase
    THEN Invalid("bad-cb-missing", 100)
  ELSE IF ~TxLoop(b.txs, 0, 0).ok THEN TxLoop(b.txs, 0, 0)
  ELSE MerkleCheck(b)

\* the most transactions a block is given
MaxTxs == 4

Tx(hash, coinbase, sane, sigops, baseSize) ==
  [hash |-> hash, coinbase |-> coinbase, sane |-> sane,
   reason |-> IF sane THEN "" ELSE "bad-txns-vin-empty",
   score |-> IF sane THEN 0 ELSE 100,
   sigops |-> sigops, baseSize |-> baseSize]

\* the transactions handed to addTX: a coinbase, two ordinary transactions,
\* a second coinbase, a transaction that is not sane, one with more sigops
\* than a block may have, and one that fills more than half a block
TxMenu ==
  { Tx(1, TRUE, TRUE, 1, 100), Tx(2, FALSE, TRUE, 2, 200),
    Tx(3, FALSE, TRUE, 0, 300), Tx(4, TRUE, TRUE, 0, 100),
    Tx(5, FALSE, FALSE, 0, 60), Tx(6, FALSE, TRUE, 20000, 400),
    Tx(7, FALSE, TRUE, 0, 500000) }

\* the transaction lists a header's merkle root is computed from
CommittedHashes == { <<1>>, <<1, 2>>, <<1, 4>>, <<1, 2, 3>>, <<1, 3, 2>> }

HeaderRoots ==
  { RawMerkleRoot([i \in 1..Len(hs) |-> Leaf(hs[i])]) : hs \in CommittedHashes }

\* the ret object handed to _verify: a new one, or one that another check
\* has written to
NoVerdict == Ret(FALSE, "not-verified", 0)
UsedVerdict == Ret(FALSE, "time-too-old", 10)

BlockInit ==
  /\ bkPc = "open"
  /\ \E root \in HeaderRoots, headersOk \in BOOLEAN :
       /\ headersOk \/ root = Leaf(1)
       /\ blk = [merkleRoot |-> root, headersOk |-> headersOk, txs |-> <<>>]
  /\ bkRet \in {NoVerdict, UsedVerdict}
  /\ BlockOthersIdle

\* block.addTX(tx)
BlockAddTX ==
  /\ bkPc = "open"
  /\ Len(blk.txs) < MaxTxs
  /\ \E tx \in TxMenu : blk' = [blk EXCEPT !.txs = Append(@, tx)]
  /\ UNCHANGED <<bkPc, bkRet>>
  /\ UNCHANGED notBlock

\* block._verify(ret): ret is written to where a check fails
BlockVerify ==
  /\ bkPc = "open"
  /\ bkRet' = IF BlockVerifyRet(blk).ok THEN [bkRet EXCEPT !.ok = TRUE]
              ELSE BlockVerifyRet(blk)
  /\ bkPc' = "verified"
  /\ UNCHANGED blk
  /\ UNCHANGED notBlock

BlockNext == BlockAddTX \/ BlockVerify

SpecBlock == BlockInit /\ [][BlockNext]_vars

\* C4: whenever _verify returns true, the merkle root of the transaction
\* hashes in block order is the header's merkleRoot, there is at least one
\* transaction, the first is a coinbase and no later one is.
C4_VerifiedBlockShape ==
  (bkPc = "verified" /\ bkRet.ok) =>
    /\ Len(blk.txs) > 0
    /\ RawMerkleRoot(Leaves(blk.txs)) = blk.merkleRoot
    /\ blk.txs[1].coinbase
    /\ \A i \in 2..Len(blk.txs) : ~blk.txs[i].coinbase

\* a block of a coinbase and two transactions verified against its header
C4_Witness ==
  /\ bkPc = "verified"
  /\ bkRet.ok
  /\ Len(blk.txs) = 3
  /\ blk.txs[3].hash = 2

RECURSIVE SumSigops(_, _)
SumSigops(txs, i) ==
  IF i > Len(txs) THEN 0 ELSE txs[i].sigops + SumSigops(txs, i + 1)

\* the checks of _verify that come before the merkle root all pass
ReachesMerkleCheck(b) ==
  /\ b.headersOk
  /\ GetBaseSize(b) <= MAX_BLOCK_SIZE
  /\ Len(b.txs) > 0
  /\ b.txs[1].coinbase
  /\ \A i \in 2..Len(b.txs) : ~b.txs[i].coinbase
  /\ \A i \in 1..Len(b.txs) : b.txs[i].sane
  /\ SumSigops(b.txs, 1) * WITNESS_SCALE_FACTOR <= MAX_SIGOPS_WEIGHT

\* C5: when _verify gets as far as the merkle root and the tree of hashes is
\* mutated, it fails bad-txns-duplicate with score 100 whatever the header's
\* merkleRoot is; it fails bad-txnmrklroot only when the tree is not mutated
\* and its root differs from the header's.
C5_DuplicateBeforeRoot ==
  bkPc = "verified" =>
    /\ (ReachesMerkleCheck(blk) /\ MerkleMutated(Leaves(blk.txs))) =>
         bkRet = Invalid("bad-txns-duplicate", 100)
    /\ bkRet.reason = "bad-txns-duplicate" =>
         /\ ~bkRet.ok /\ bkRet.score = 100
         /\ MerkleMutated(Leaves(blk.txs))
    /\ bkRet.reason = "bad-txnmrklroot" =>
         /\ ~bkRet.ok
         /\ ~MerkleMutated(Leaves(blk.txs))
         /\ RawMerkleRoot(Leaves(blk.txs)) # blk.merkleRoot

\* a block whose last transaction is repeated, so that the root of its tree
\* is the header's all the same, was refused as a duplicate
C5_Witness ==
  /\ bkPc = "verified"
  /\ Len(blk.txs) = 4
  /\ blk.txs[3] = blk.txs[4]
  /\ RawMerkleRoot(Leaves(blk.txs)) = blk.merkleRoot
  /\ bkRet = Invalid("bad-txns-duplicate", 100)
(***************************************************************************)
(* Script.prototype.execute (lib/script/script.js): the limits and the     *)
(* opcodes it names                                                        *)
(***************************************************************************)

MAX_SCRIPT_SIZE == 10000
MAX_PUSH == 520
MAX_OPS == 201
MAX_STACK == 1000
MAX_MULTISIG_PUBKEYS == 20
LOCKTIME_THRESHOLD == 500000000
SEQUENCE_TYPE_FLAG == 4194304

OP_0 == 0
OP_1NEGATE == 79
OP_1 == 81
OP_16 == 96
OP_NOP == 97
OP_IF == 99
OP_NOTIF == 100
OP_VERIF == 101
OP_VERNOTIF == 102
OP_ELSE == 103
OP_ENDIF == 104
OP_VERIFY == 105
OP_RETURN == 106
OP_TOALTSTACK == 107
OP_FROMALTSTACK == 108
OP_2DROP == 109
OP_2DUP == 110
OP_3DUP == 111
OP_2OVER == 112
OP_2ROT == 113
OP_2SWAP == 114
OP_IFDUP == 115
OP_DEPTH == 116
OP_DROP == 117
OP_DUP == 118
OP_NIP == 119
OP_OVER == 120
OP_PICK == 121
OP_ROLL == 122
OP_ROT == 123
OP_SWAP == 124
OP_TUCK == 125
OP_CAT == 126
OP_SUBSTR == 127
OP_LEFT == 128
OP_RIGHT == 129
OP_SIZE == 130
OP_INVERT == 131
OP_AND == 132
OP_OR == 133
OP_XOR == 134
OP_EQUAL == 135
OP_EQUALVERIFY == 136
OP_1ADD == 139
OP_1SUB == 140
OP_2MUL == 141
OP_2DIV == 142
OP_NEGATE == 143
OP_ABS == 144
OP_NOT == 145
OP_0NOTEQUAL == 146
OP_ADD == 147
OP_SUB == 148
OP_MUL == 149
OP_DIV == 150
OP_MOD == 151
OP_LSHIFT == 152
OP_RSHIFT == 153
OP_BOOLAND == 154
OP_BOOLOR == 155
OP_NUMEQUAL == 156
OP_NUMEQUALVERIFY == 157
OP_NUMNOTEQUAL == 158
OP_LESSTHAN == 159
OP_GREATERTHAN == 160
OP_LESSTHANOREQUAL == 161
OP_GREATERTHANOREQUAL == 162
OP_MIN == 163
OP_MAX == 164
OP_WITHIN == 165
OP_RIPEMD160 == 166
OP_SHA1 == 167
OP_SHA256 == 168
OP_HASH160 == 169
OP_HASH256 == 170
OP_CODESEPARATOR == 171
OP_CHECKSIG == 172
OP_CHECKSIGVERIFY == 173
OP_CHECKMULTISIG == 174
OP_CHECKMULTISIGVERIFY == 175
OP_NOP1 == 176
OP_CHECKLOCKTIMEVERIFY == 177
OP_CHECKSEQUENCEVERIFY == 178
OP_NOP4 == 179
OP_NOP10 == 185

OP_NOPS == {OP_NOP1} \cup (OP_NOP4..OP_NOP10)

\* a list of refused opcodes that leaves OP_CAT out
DisabledOpsWithoutCat ==
  {OP_SUBSTR, OP_LEFT, OP_RIGHT, OP_INVERT, OP_AND, OP_OR, OP_XOR,
   OP_2MUL, OP_2DIV, OP_MUL, OP_DIV, OP_MOD, OP_LSHIFT, OP_RSHIFT}

\* the opcodes refused wherever they stand (script.js 349-366)
DisabledOps ==
  {OP_CAT, OP_SUBSTR, OP_LEFT, OP_RIGHT, OP_INVERT, OP_AND, OP_OR, OP_XOR,
   OP_2MUL, OP_2DIV, OP_MUL, OP_DIV, OP_MOD, OP_LSHIFT, OP_RSHIFT}

STACK_TRUE == <<1>>
STACK_FALSE == <<>>
STACK_NEGATE == <<129>>

(***************************************************************************)
(* The Stack (stack.js): a sequence whose last element is the top          *)
(***************************************************************************)

\* stack.top(-k)
Top(stack, k) == stack[Len(stack) - k + 1]

\* the stack after n calls of stack.pop()
PopN(stack, n) == SubSeq(stack, 1, Len(stack) - n)

Pop(stack) == PopN(stack, 1)

\* stack.remove(-k)
RemoveAt(stack, k) ==
  SubSeq(stack, 1, Len(stack) - k) \o SubSeq(stack, Len(stack) - k + 2, Len(stack))

\* stack.swap(-i, -j)
Swap(stack, i, j) ==
  [stack EXCEPT ![Len(stack) - i + 1] = Top(stack, j),
                ![Len(stack) - j + 1] = Top(stack, i)]

\* stack.insert(-k, value)
InsertAt(stack, k, value) ==
  SubSeq(stack, 1, Len(stack) - k) \o <<value>>
    \o SubSeq(stack, Len(stack) - k + 1, Len(stack))

\* Script.bool
ScriptBool(value) ==
  \E i \in 1..Len(value) :
    /\ value[i] # 0
    /\ \A j \in 1..(i - 1) : value[j] = 0
    /\ ~(i = Len(value) /\ value[i] = 128)

\* a test of minimal pushes that accepts every opcode above 75 bytes
IsMinimalDirectOnly(data, opcode, flags) ==
  IF "MINIMALDATA" \notin flags THEN TRUE
  ELSE IF Len(data) = 0 THEN opcode = OP_0
  ELSE IF Len(data) = 1 /\ data[1] >= 1 /\ data[1] <= 16 THEN FALSE
  ELSE IF Len(data) = 1 /\ data[1] = 129 THEN FALSE
  ELSE IF Len(data) <= 75 THEN opcode = Len(data)
  ELSE TRUE

\* Script.isMinimal for the data of a push opcode
IsMinimal(data, opcode, flags) ==
  IF "MINIMALDATA" \notin flags THEN TRUE
  ELSE IF Len(data) = 0 THEN opcode = OP_0
  ELSE IF Len(data) = 1 /\ data[1] >= 1 /\ data[1] <= 16 THEN FALSE
  ELSE IF Len(data) = 1 /\ data[1] = 129 THEN FALSE
  ELSE IF Len(data) <= 75 THEN opcode = Len(data)
  ELSE IF Len(data) <= 255 THEN opcode = OP_PUSHDATA1
  ELSE IF Len(data) <= 65535 THEN opcode = OP_PUSHDATA2
  ELSE TRUE

(***************************************************************************)
(* A Script: its raw bytes and the code decoded from them                  *)
(***************************************************************************)

\* new Script(raw)
ScriptFromRaw(raw) == [raw |-> raw, code |-> ScriptDecode(raw)]

\* Script.fromArray(code)
ScriptFromCode(code) == [raw |-> ScriptEncode(code).raw, code |-> code]

\* Script.prototype.getSize
GetSize(script) == Len(script.raw)

\* Script.prototype.isPushOnly
IsPushOnly(script) ==
  \A i \in 1..Len(script.code) :
    LET op == script.code[i] IN
    op.push \/ (op.value # -1 /\ op.value <= OP_16)

\* Script.prototype.isScripthash
IsScripthash(script) ==
  /\ Len(script.raw) = 23
  /\ script.raw[1] = OP_HASH160
  /\ script.raw[2] = 20
  /\ script.raw[23] = OP_EQUAL

(***************************************************************************)
(* The locals of execute.  err = "" while nothing was thrown; body is TRUE *)
(* once the switch has run the body of a disabled opcode.                  *)
(***************************************************************************)

Frame(script, stack, version) ==
  [code |-> script.code, size |-> GetSize(script), ip |-> 0, stack |-> stack,
   alt |-> <<>>, state |-> <<>>, negate |-> 0, opCount |-> 0, lastSep |-> 0,
   version |-> version, err |-> "", body |-> FALSE]

\* throw new ScriptError(code, op, ip)
Throw(e, code) == [e EXCEPT !.err = code]

\* break: the for loop goes on to the next opcode
Continue(e) == [e EXCEPT !.ip = @ + 1]

WithStack(e, stack) == Continue([e EXCEPT !.stack = stack])

(***************************************************************************)
(* One iteration of execute's loop, opcode by opcode                       *)
(***************************************************************************)

\* a data push tested for minimal encoding in skipped branches too
StepPushAlwaysMinimal(e, op, flags) ==
  IF Len(op.data) > MAX_PUSH THEN Throw(e, "PUSH_SIZE")
  ELSE IF ~IsMinimal(op.data, op.value, flags) THEN Throw(e, "MINIMALDATA")
  ELSE IF e.negate = 0 THEN WithStack(e, Append(e.stack, op.data))
  ELSE Continue(e)

\* a data push (script.js 326-339)
StepPush(e, op, flags) ==
  IF Len(op.data) > MAX_PUSH THEN Throw(e, "PUSH_SIZE")
  ELSE IF e.negate = 0 THEN
    IF ~IsMinimal(op.data, op.value, flags) THEN Throw(e, "MINIMALDATA")
    ELSE WithStack(e, Append(e.stack, op.data))
  ELSE Continue(e)

\* an OP_IF that reads the stack in a skipped branch as in an executed one
StepIfAlwaysReads(e, op, flags) ==
  IF Len(e.stack) < 1 THEN Throw(e, "UNBALANCED_CONDITIONAL")
  ELSE
    LET top == Top(e.stack, 1)
        b == ScriptBool(top)
        val == IF op.value = OP_NOTIF THEN ~b ELSE b
    IN
    IF /\ e.version = 1
       /\ "MINIMALIF" \in flags
       /\ (Len(top) > 1 \/ (Len(top) = 1 /\ top[1] # 1))
      THEN Throw(e, "MINIMALIF")
    ELSE Continue([e EXCEPT !.stack = Pop(@),
                            !.state = Append(@, val),
                            !.negate = IF val THEN @ ELSE @ + 1])

\* OP_IF and OP_NOTIF (script.js 370-398)
StepIf(e, op, flags) ==
  IF e.negate = 0 THEN
    IF Len(e.stack) < 1 THEN Throw(e, "UNBALANCED_CONDITIONAL")
    ELSE
      LET top == Top(e.stack, 1)
          b == ScriptBool(top)
          val == IF op.value = OP_NOTIF THEN ~b ELSE b
      IN
      IF /\ e.version = 1
         /\ "MINIMALIF" \in flags
         /\ (Len(top) > 1 \/ (Len(top) = 1 /\ top[1] # 1))
        THEN Throw(e, "MINIMALIF")
      ELSE Continue([e EXCEPT !.stack = Pop(@),
                              !.state = Append(@, val),
                              !.negate = IF val THEN @ ELSE @ + 1])
  ELSE Continue([e EXCEPT !.state = Append(@, FALSE), !.negate = @ + 1])

\* conditionals whose OP_ELSE is refused once the branch was toggled
StepCondOneElse(e, op, flags) ==
  IF op.value \in {OP_IF, OP_NOTIF} THEN StepIf(e, op, flags)
  ELSE IF op.value = OP_ELSE THEN
    IF Len(e.state) = 0 \/ e.code[e.ip].value = OP_ELSE
      THEN Throw(e, "UNBALANCED_CONDITIONAL")
    ELSE LET flipped == ~e.state[Len(e.state)] IN
         Continue([e EXCEPT !.state[Len(e.state)] = flipped,
                            !.negate = IF flipped THEN @ - 1 ELSE @ + 1])
  ELSE IF op.value = OP_ENDIF THEN
    IF Len(e.state) = 0 THEN Throw(e, "UNBALANCED_CONDITIONAL")
    ELSE Continue([e EXCEPT !.state = SubSeq(@, 1, Len(@) - 1),
                            !.negate = IF e.state[Len(e.state)] THEN @ ELSE @ - 1])
  ELSE Throw(e, "BAD_OPCODE")

\* conditionals whose OP_VERIF and OP_VERNOTIF are passed over in a skipped
\* branch
StepCondVerifSkipped(e, op, flags) ==
  IF op.value \in {OP_IF, OP_NOTIF} THEN StepIf(e, op, flags)
  ELSE IF op.value = OP_ELSE THEN
    IF Len(e.state) = 0 THEN Throw(e, "UNBALANCED_CONDITIONAL")
    ELSE LET flipped == ~e.state[Len(e.state)] IN
         Continue([e EXCEPT !.state[Len(e.state)] = flipped,
                            !.negate = IF flipped THEN @ - 1 ELSE @ + 1])
  ELSE IF op.value = OP_ENDIF THEN
    IF Len(e.state) = 0 THEN Throw(e, "UNBALANCED_CONDITIONAL")
    ELSE Continue([e EXCEPT !.state = SubSeq(@, 1, Len(@) - 1),
                            !.negate = IF e.state[Len(e.state)] THEN @ ELSE @ - 1])
  ELSE IF e.negate # 0 THEN Continue(e)
  ELSE Throw(e, "BAD_OPCODE")

\* OP_IF .. OP_ENDIF (script.js 368-434)
StepCond(e, op, flags) ==
  IF op.value \in {OP_IF, OP_NOTIF} THEN StepIf(e, op, flags)
  ELSE IF op.value = OP_ELSE THEN
    IF Len(e.state) = 0 THEN Throw(e, "UNBALANCED_CONDITIONAL")
    ELSE LET flipped == ~e.state[Len(e.state)] IN
         Continue([e EXCEPT !.state[Len(e.state)] = flipped,
                            !.negate = IF flipped THEN @ - 1 ELSE @ + 1])
  ELSE IF op.value = OP_ENDIF THEN
    IF Len(e.state) = 0 THEN Throw(e, "UNBALANCED_CONDITIONAL")
    ELSE Continue([e EXCEPT !.state = SubSeq(@, 1, Len(@) - 1),
                            !.negate = IF e.state[Len(e.state)] THEN @ ELSE @ - 1])
  ELSE Throw(e, "BAD_OPCODE")

\* the order of two magnitudes of i bytes each, compared from the high byte
RECURSIVE MagCmpFrom(_, _, _)
MagCmpFrom(a, b, i) ==
  IF i = 0 THEN 0
  ELSE IF a[i] < b[i] THEN -1
  ELSE IF a[i] > b[i] THEN 1
  ELSE MagCmpFrom(a, b, i - 1)

\* a < b for the magnitudes of two numbers
NumLess(a, b) ==
  \/ Len(a.mag) < Len(b.mag)
  \/ Len(a.mag) = Len(b.mag) /\ MagCmpFrom(a.mag, b.mag, Len(a.mag)) < 0

\* x & DISABLE_FLAG: the operands of & are cut to their low 32 bits, of
\* which this is bit 31
BNBit31(bn) == HighBit(ByteAt(bn.mag, 3))

\* a sequence that locks nothing
SEQUENCE_FINAL == [neg |-> FALSE, mag |-> <<255, 255, 255, 255>>]

\* a check of the lock time that leaves the sequence of the input out
CheckLocktimeAnySequence(locktime, tx) ==
  LET threshold == BNFromInt(LOCKTIME_THRESHOLD) IN
  /\ \/ NumLess(tx.locktime, threshold) /\ NumLess(locktime, threshold)
     \/ ~NumLess(tx.locktime, threshold) /\ ~NumLess(locktime, threshold)
  /\ ~NumLess(tx.locktime, locktime)

\* Script.checkLocktime
CheckLocktime(locktime, tx) ==
  LET threshold == BNFromInt(LOCKTIME_THRESHOLD) IN
  /\ \/ NumLess(tx.locktime, threshold) /\ NumLess(locktime, threshold)
     \/ ~NumLess(tx.locktime, threshold) /\ ~NumLess(locktime, threshold)
  /\ ~NumLess(tx.locktime, locktime)
  /\ tx.sequence # SEQUENCE_FINAL

\* a mask that keeps the 16 low bits only
SequenceMaskedLow(x) == 256 * ByteAt(x.mag, 1) + ByteAt(x.mag, 0)

\* x & (TYPE_FLAG | MASK): of the low 32 bits of x, bit 22 and bits 0..15
SequenceMasked(x) ==
  ((ByteAt(x.mag, 2) \div 64) % 2) * SEQUENCE_TYPE_FLAG
    + 256 * ByteAt(x.mag, 1) + ByteAt(x.mag, 0)

\* Script.checkSequence
CheckSequence(sequence, tx) ==
  /\ tx.version >= 2
  /\ ~BNBit31(tx.sequence)
  /\ \/ /\ SequenceMasked(tx.sequence) < SEQUENCE_TYPE_FLAG
        /\ SequenceMasked(sequence) < SEQUENCE_TYPE_FLAG
     \/ /\ SequenceMasked(tx.sequence) >= SEQUENCE_TYPE_FLAG
        /\ SequenceMasked(sequence) >= SEQUENCE_TYPE_FLAG
  /\ SequenceMasked(sequence) <= SequenceMasked(tx.sequence)

\* OP_CHECKLOCKTIMEVERIFY and OP_CHECKSEQUENCEVERIFY (script.js 470-520)
StepLocktime(e, op, flags, tx) ==
  LET csv == op.value = OP_CHECKSEQUENCEVERIFY
      flag == IF csv THEN "CHECKSEQUENCEVERIFY" ELSE "CHECKLOCKTIMEVERIFY"
  IN
  IF flag \notin flags THEN
    IF "DISCOURAGE_UPGRADABLE_NOPS" \in flags
      THEN Throw(e, "DISCOURAGE_UPGRADABLE_NOPS")
      ELSE Continue(e)
  ELSE IF ~tx.present THEN Throw(e, "UNKNOWN_ERROR")
  ELSE IF Len(e.stack) = 0 THEN Throw(e, "INVALID_STACK_OPERATION")
  ELSE
    LET num == ScriptNum(Top(e.stack, 1), flags, 5) IN
    IF ~num.ok THEN Throw(e, "UNKNOWN_ERROR")
    ELSE IF num.val.neg THEN Throw(e, "NEGATIVE_LOCKTIME")
    ELSE IF csv THEN
      IF BNBit31(num.val) THEN Continue(e)
      ELSE IF ~CheckSequence(num.val, tx)
        THEN Throw(e, "UNSATISFIED_LOCKTIME")
      ELSE Continue(e)
    ELSE IF ~CheckLocktime(num.val, tx)
      THEN Throw(e, "UNSATISFIED_LOCKTIME")
    ELSE Continue(e)

\* the opcodes that only move stack elements (script.js 534-711)
StepStack(e, op, flags) ==
  LET st == e.stack
      n == Len(st)
      v == op.value
      need == CASE v \in {OP_VERIFY, OP_TOALTSTACK, OP_IFDUP, OP_DROP, OP_DUP,
                          OP_SIZE} -> 1
                [] v \in {OP_2DROP, OP_2DUP, OP_NIP, OP_OVER, OP_PICK, OP_ROLL,
                          OP_SWAP, OP_TUCK} -> 2
                [] v \in {OP_3DUP, OP_ROT} -> 3
                [] v \in {OP_2OVER, OP_2SWAP} -> 4
                [] v = OP_2ROT -> 6
                [] OTHER -> 0
  IN
  IF v = OP_FROMALTSTACK THEN
    IF Len(e.alt) = 0 THEN Throw(e, "INVALID_ALTSTACK_OPERATION")
    ELSE Continue([e EXCEPT !.stack = Append(@, Top(e.alt, 1)), !.alt = Pop(@)])
  ELSE IF n < need THEN Throw(e, "INVALID_STACK_OPERATION")
  ELSE IF v = OP_VERIFY THEN
    IF ~ScriptBool(Top(st, 1)) THEN Throw(e, "VERIFY") ELSE WithStack(e, Pop(st))
  ELSE IF v = OP_TOALTSTACK THEN
    Continue([e EXCEPT !.stack = Pop(@), !.alt = Append(@, Top(st, 1))])
  ELSE IF v = OP_2DROP THEN WithStack(e, PopN(st, 2))
  ELSE IF v = OP_2DUP THEN WithStack(e, st \o <<Top(st, 2), Top(st, 1)>>)
  ELSE IF v = OP_3DUP
    THEN WithStack(e, st \o <<Top(st, 3), Top(st, 2), Top(st, 1)>>)
  ELSE IF v = OP_2OVER THEN WithStack(e, st \o <<Top(st, 4), Top(st, 3)>>)
  ELSE IF v = OP_2ROT
    THEN WithStack(e, RemoveAt(RemoveAt(st, 6), 5) \o <<Top(st, 6), Top(st, 5)>>)
  ELSE IF v = OP_2SWAP THEN WithStack(e, Swap(Swap(st, 4, 2), 3, 1))
  ELSE IF v = OP_IFDUP THEN
    WithStack(e, IF ScriptBool(Top(st, 1)) THEN Append(st, Top(st, 1)) ELSE st)
  ELSE IF v = OP_DEPTH THEN WithStack(e, Append(st, ScriptArray(BNFromInt(n))))
  ELSE IF v = OP_DROP THEN WithStack(e, Pop(st))
  ELSE IF v = OP_DUP THEN WithStack(e, Append(st, Top(st, 1)))
  ELSE IF v = OP_NIP THEN WithStack(e, RemoveAt(st, 2))
  ELSE IF v = OP_OVER THEN WithStack(e, Append(st, Top(st, 2)))
  ELSE IF v \in {OP_PICK, OP_ROLL} THEN
    LET num == ScriptNum(Top(st, 1), flags, NUM_SIZE)
        rest == Pop(st)
        k == BNToInt(num.val)
    IN
    IF ~num.ok THEN Throw(e, "UNKNOWN_ERROR")
    ELSE IF k < 0 \/ k >= Len(rest) THEN Throw(e, "INVALID_STACK_OPERATION")
    ELSE WithStack(e, Append(IF v = OP_ROLL THEN RemoveAt(rest, k + 1) ELSE rest,
                             Top(rest, k + 1)))
  ELSE IF v = OP_ROT THEN WithStack(e, Swap(Swap(st, 3, 2), 2, 1))
  ELSE IF v = OP_SWAP THEN WithStack(e, Swap(st, 2, 1))
  ELSE IF v = OP_TUCK THEN WithStack(e, InsertAt(st, 2, Top(st, 1)))
  ELSE WithStack(e, Append(st, ScriptArray(BNFromInt(Len(Top(st, 1))))))

StackOps ==
  {OP_VERIFY, OP_TOALTSTACK, OP_FROMALTSTACK, OP_2DROP, OP_2DUP, OP_3DUP,
   OP_2OVER, OP_2ROT, OP_2SWAP, OP_IFDUP, OP_DEPTH, OP_DROP, OP_DUP, OP_NIP,
   OP_OVER, OP_PICK, OP_ROLL, OP_ROT, OP_SWAP, OP_TUCK, OP_SIZE}

\* a sum of magnitudes that keeps the bytes of the longer operand and drops
\* the carry out of its last byte
RECURSIVE MagAddWrapped(_, _, _)
MagAddWrapped(a, b, carry) ==
  IF a = <<>> /\ b = <<>> THEN <<>>
  ELSE LET x == (IF a = <<>> THEN 0 ELSE a[1]) + (IF b = <<>> THEN 0 ELSE b[1]) + carry
       IN <<x % 256>> \o MagAddWrapped(IF a = <<>> THEN a ELSE Tail(a),
                                       IF b = <<>> THEN b ELSE Tail(b), x \div 256)

\* the sum of two magnitudes and a carry, byte by byte
RECURSIVE MagAdd(_, _, _)
MagAdd(a, b, carry) ==
  IF a = <<>> /\ b = <<>> THEN (IF carry = 0 THEN <<>> ELSE <<carry>>)
  ELSE LET x == (IF a = <<>> THEN 0 ELSE a[1]) + (IF b = <<>> THEN 0 ELSE b[1]) + carry
       IN <<x % 256>> \o MagAdd(IF a = <<>> THEN a ELSE Tail(a),
                                IF b = <<>> THEN b ELSE Tail(b), x \div 256)

\* a - b - borrow for magnitudes a >= b, byte by byte
RECURSIVE MagSub(_, _, _)
MagSub(a, b, borrow) ==
  IF a = <<>> THEN <<>>
  ELSE LET x == a[1] - (IF b = <<>> THEN 0 ELSE b[1]) - borrow
       IN <<x % 256>> \o MagSub(Tail(a), IF b = <<>> THEN b ELSE Tail(b),
                                IF x < 0 THEN 1 ELSE 0)

\* bn.js arithmetic on script numbers: a.add(b), a.sub(b), a.ineg()
BNAdd(a, b) ==
  IF a.neg = b.neg THEN [neg |-> a.neg, mag |-> MagAdd(a.mag, b.mag, 0)]
  ELSE IF a.mag = b.mag THEN BNZero
  ELSE IF NumLess(a, b)
    THEN [neg |-> b.neg, mag |-> StripZeros(MagSub(b.mag, a.mag, 0))]
    ELSE [neg |-> a.neg, mag |-> StripZeros(MagSub(a.mag, b.mag, 0))]
BNNeg(a) == IF BNIsZero(a) THEN a ELSE [a EXCEPT !.neg = ~@]
BNSub(a, b) == BNAdd(a, BNNeg(b))
BNCmp(a, b) ==
  IF BNToInt(a) < BNToInt(b) THEN -1 ELSE IF BNToInt(a) > BNToInt(b) THEN 1 ELSE 0
BNBool(b) == BNFromInt(IF b THEN 1 ELSE 0)

\* the opcodes of one number (script.js 743-789)
StepUnary(e, op, flags) ==
  IF Len(e.stack) < 1 THEN Throw(e, "INVALID_STACK_OPERATION")
  ELSE
    LET num == ScriptNum(Top(e.stack, 1), flags, NUM_SIZE)
        v == op.value
        out == CASE v = OP_1ADD -> BNAdd(num.val, BNFromInt(1))
                 [] v = OP_1SUB -> BNSub(num.val, BNFromInt(1))
                 [] v = OP_NEGATE -> BNNeg(num.val)
                 [] v = OP_ABS -> IF num.val.neg THEN BNNeg(num.val) ELSE num.val
                 [] v = OP_NOT -> BNBool(BNIsZero(num.val))
                 [] v = OP_0NOTEQUAL -> BNBool(~BNIsZero(num.val))
    IN
    IF ~num.ok THEN Throw(e, "UNKNOWN_ERROR")
    ELSE WithStack(e, Append(Pop(e.stack), ScriptArray(out)))

UnaryOps == {OP_1ADD, OP_1SUB, OP_NEGATE, OP_ABS, OP_NOT, OP_0NOTEQUAL}

\* the opcodes of two numbers (script.js 790-890)
StepBinary(e, op, flags) ==
  IF Len(e.stack) < 2 THEN Throw(e, "INVALID_STACK_OPERATION")
  ELSE
    LET n1 == ScriptNum(Top(e.stack, 2), flags, NUM_SIZE)
        n2 == ScriptNum(Top(e.stack, 1), flags, NUM_SIZE)
        v == op.value
        c == BNCmp(n1.val, n2.val)
        out == CASE v = OP_ADD -> BNAdd(n1.val, n2.val)
                 [] v = OP_SUB -> BNSub(n1.val, n2.val)
                 [] v = OP_BOOLAND -> BNBool(~BNIsZero(n1.val) /\ ~BNIsZero(n2.val))
                 [] v = OP_BOOLOR -> BNBool(~BNIsZero(n1.val) \/ ~BNIsZero(n2.val))
                 [] v \in {OP_NUMEQUAL, OP_NUMEQUALVERIFY} -> BNBool(c = 0)
                 [] v = OP_NUMNOTEQUAL -> BNBool(c # 0)
                 [] v = OP_LESSTHAN -> BNBool(c < 0)
                 [] v = OP_GREATERTHAN -> BNBool(c > 0)
                 [] v = OP_LESSTHANOREQUAL -> BNBool(c <= 0)
                 [] v = OP_GREATERTHANOREQUAL -> BNBool(c >= 0)
                 [] v = OP_MIN -> IF c < 0 THEN n1.val ELSE n2.val
                 [] v = OP_MAX -> IF c > 0 THEN n1.val ELSE n2.val
        pushed == Append(PopN(e.stack, 2), ScriptArray(out))
    IN
    IF ~n1.ok \/ ~n2.ok THEN Throw(e, "UNKNOWN_ERROR")
    ELSE IF v = OP_NUMEQUALVERIFY THEN
      IF ~ScriptBool(Top(pushed, 1))
        THEN Throw([e EXCEPT !.stack = pushed], "NUMEQUALVERIFY")
        ELSE WithStack(e, Pop(pushed))
    ELSE WithStack(e, pushed)

BinaryOps ==
  {OP_ADD, OP_SUB, OP_BOOLAND, OP_BOOLOR, OP_NUMEQUAL, OP_NUMEQUALVERIFY,
   OP_NUMNOTEQUAL, OP_LESSTHAN, OP_GREATERTHAN, OP_LESSTHANOREQUAL,
   OP_GREATERTHANOREQUAL, OP_MIN, OP_MAX}

\* OP_WITHIN (script.js 891-907)
StepWithin(e, flags) ==
  IF Len(e.stack) < 3 THEN Throw(e, "INVALID_STACK_OPERATION")
  ELSE
    LET n1 == ScriptNum(Top(e.stack, 3), flags, NUM_SIZE)
        n2 == ScriptNum(Top(e.stack, 2), flags, NUM_SIZE)
        n3 == ScriptNum(Top(e.stack, 1), flags, NUM_SIZE)
        val == BNCmp(n2.val, n1.val) <= 0 /\ BNCmp(n1.val, n3.val) < 0
    IN
    IF ~n1.ok \/ ~n2.ok \/ ~n3.ok THEN Throw(e, "UNKNOWN_ERROR")
    ELSE WithStack(e, Append(PopN(e.stack, 3),
                             IF val THEN STACK_TRUE ELSE STACK_FALSE))

\* OP_EQUAL and OP_EQUALVERIFY (script.js 717-742)
StepEqual(e, op) ==
  IF Len(e.stack) < 2 THEN Throw(e, "INVALID_STACK_OPERATION")
  ELSE
    LET res == Top(e.stack, 2) = Top(e.stack, 1)
        pushed == Append(PopN(e.stack, 2), IF res THEN STACK_TRUE ELSE STACK_FALSE)
    IN
    IF op.value = OP_EQUALVERIFY THEN
      IF ~res THEN Throw([e EXCEPT !.stack = pushed], "EQUALVERIFY")
      ELSE WithStack(e, Pop(pushed))
    ELSE WithStack(e, pushed)

\* the hash functions of crypto: a digest of n bytes that tells apart the
\* functions, the lengths and the contents of the byte vectors hashed here
RECURSIVE WeightedRange(_, _, _)
WeightedRange(data, lo, hi) ==
  IF lo > hi THEN 0
  ELSE IF lo = hi THEN (lo * data[lo]) % 251
  ELSE LET mid == (lo + hi) \div 2 IN
       (WeightedRange(data, lo, mid) + WeightedRange(data, mid + 1, hi)) % 251

WeightedSum(data, i) == WeightedRange(data, i, Len(data))

Digest(tag, data, n) ==
  [i \in 1..n |-> CASE i = 1 -> tag
                    [] i = 2 -> Len(data) % 256
                    [] i = 3 -> WeightedSum(data, 1)
                    [] OTHER -> 0]

Hash160(data) == Digest(OP_HASH160, data, 20)

\* OP_RIPEMD160 .. OP_HASH256 (script.js 908-942)
StepHash(e, op) ==
  IF Len(e.stack) = 0 THEN Throw(e, "INVALID_STACK_OPERATION")
  ELSE WithStack(e, Append(Pop(e.stack),
         Digest(op.value, Top(e.stack, 1),
                IF op.value \in {OP_SHA256, OP_HASH256} THEN 32 ELSE 20)))

HashOps == {OP_RIPEMD160, OP_SHA1, OP_SHA256, OP_HASH160, OP_HASH256}

(***************************************************************************)
(* Signatures and keys                                                     *)
(***************************************************************************)

\* Script.isSignatureEncoding
IsSignatureEncoding(sig) ==
  LET lenR == ByteAt(sig, 3)
      lenS == ByteAt(sig, 5 + lenR)
  IN
  /\ Len(sig) >= 9
  /\ Len(sig) <= 73
  /\ ByteAt(sig, 0) = 48
  /\ ByteAt(sig, 1) = Len(sig) - 3
  /\ 5 + lenR < Len(sig)
  /\ lenR + lenS + 7 = Len(sig)
  /\ ByteAt(sig, 2) = 2
  /\ lenR # 0
  /\ ~HighBit(ByteAt(sig, 4))
  /\ ~(lenR > 1 /\ ByteAt(sig, 4) = 0 /\ ~HighBit(ByteAt(sig, 5)))
  /\ ByteAt(sig, lenR + 4) = 2
  /\ lenS # 0
  /\ ~HighBit(ByteAt(sig, lenR + 6))
  /\ ~(lenS > 1 /\ ByteAt(sig, lenR + 6) = 0 /\ ~HighBit(ByteAt(sig, lenR + 7)))

\* Script.isHashType: the type without ANYONECANPAY is ALL, NONE or SINGLE
IsHashType(sig) ==
  /\ Len(sig) # 0
  /\ Low7(Last(sig)) >= 1
  /\ Low7(Last(sig)) <= 3

\* ec.isLowS: S is at most half the order of the curve, which every S
\* shorter than 32 bytes is
IsLowS(der) == ByteAt(der, 5 + ByteAt(der, 3)) < 32

\* Script.isLowDER
IsLowDER(sig) ==
  IsSignatureEncoding(sig) /\ IsLowS(SubSeq(sig, 1, Len(sig) - 1))

\* Script.validateSignature: the error it throws, or ""
ValidateSignature(sig, flags) ==
  IF Len(sig) = 0 THEN ""
  ELSE IF /\ flags \cap {"DERSIG", "LOW_S", "STRICTENC"} # {}
          /\ ~IsSignatureEncoding(sig) THEN "SIG_DER"
  ELSE IF "LOW_S" \in flags /\ ~IsLowDER(sig) THEN "SIG_HIGH_S"
  ELSE IF "STRICTENC" \in flags /\ ~IsHashType(sig) THEN "SIG_HASHTYPE"
  ELSE ""

\* Script.isCompressedEncoding
IsCompressedEncoding(key) == Len(key) = 33 /\ key[1] \in {2, 3}

\* Script.isKeyEncoding
IsKeyEncoding(key) ==
  /\ Len(key) >= 33
  /\ \/ key[1] = 4 /\ Len(key) = 65
     \/ key[1] \in {2, 3} /\ Len(key) = 33

\* Script.validateKey: the error it throws, or ""
ValidateKey(key, flags, version) ==
  IF "STRICTENC" \in flags /\ ~IsKeyEncoding(key) THEN "PUBKEYTYPE"
  ELSE IF /\ version = 1
          /\ "WITNESS_PUBKEYTYPE" \in flags
          /\ ~IsCompressedEncoding(key) THEN "WITNESS_PUBKEYTYPE"
  ELSE ""

\* Script.checksig on tx.signatureHash: whether the curve accepts the
\* signature for the key over the hash of this input
Checksig(sig, key, valid) == <<sig, key>> \in valid

\* a NULLFAIL test that does not let the empty signature through
NullFailsOnEmpty(res, sig, flags) == ~res /\ "NULLFAIL" \in flags

\* a NULLFAIL test that does not look at the flag
NullFailsWithoutFlag(res, sig, flags) == ~res /\ Len(sig) # 0

\* the NULLFAIL test of OP_CHECKSIG (script.js 988-991)
NullFails(res, sig, flags) == ~res /\ "NULLFAIL" \in flags /\ Len(sig) # 0

\* OP_CHECKSIG and OP_CHECKSIGVERIFY (script.js 963-1006)
StepChecksig(e, op, flags, tx, valid) ==
  IF ~tx.present THEN Throw(e, "UNKNOWN_ERROR")
  ELSE IF Len(e.stack) < 2 THEN Throw(e, "INVALID_STACK_OPERATION")
  ELSE
    LET sig == Top(e.stack, 2)
        key == Top(e.stack, 1)
        res == Len(sig) > 0 /\ Checksig(sig, key, valid)
        pushed == Append(PopN(e.stack, 2), IF res THEN STACK_TRUE ELSE STACK_FALSE)
    IN
    IF ValidateSignature(sig, flags) # ""
      THEN Throw(e, ValidateSignature(sig, flags))
    ELSE IF ValidateKey(key, flags, e.version) # ""
      THEN Throw(e, ValidateKey(key, flags, e.version))
    ELSE IF NullFails(res, sig, flags) THEN Throw(e, "NULLFAIL")
    ELSE IF op.value = OP_CHECKSIGVERIFY THEN
      IF ~res THEN Throw([e EXCEPT !.stack = pushed], "CHECKSIGVERIFY")
      ELSE WithStack(e, Pop(pushed))
    ELSE WithStack(e, pushed)

WalkResult(res, err) == [res |-> res, err |-> err]

\* a walk in which a signature that fails against a key is given up
RECURSIVE MultisigWalkDropsSig(_, _, _, _, _, _, _, _)
MultisigWalkDropsSig(stack, isig, ikey, m, n, flags, version, valid) ==
  IF m <= 0 THEN WalkResult(TRUE, "")
  ELSE
    LET sig == Top(stack, isig)
        key == Top(stack, ikey)
        hit == Len(sig) > 0 /\ Checksig(sig, key, valid)
    IN
    IF ValidateSignature(sig, flags) # ""
      THEN WalkResult(FALSE, ValidateSignature(sig, flags))
    ELSE IF ValidateKey(key, flags, version) # ""
      THEN WalkResult(FALSE, ValidateKey(key, flags, version))
    ELSE IF ~hit THEN WalkResult(FALSE, "")
    ELSE MultisigWalkDropsSig(stack, isig + 1, ikey + 1, m - 1, n - 1,
                              flags, version, valid)

\* the while loop of OP_CHECKMULTISIG over signatures and keys (script.js
\* 1059-1080), entered with res = true
RECURSIVE MultisigWalk(_, _, _, _, _, _, _, _)
MultisigWalk(stack, isig, ikey, m, n, flags, version, valid) ==
  IF m <= 0 THEN WalkResult(TRUE, "")
  ELSE
    LET sig == Top(stack, isig)
        key == Top(stack, ikey)
        hit == Len(sig) > 0 /\ Checksig(sig, key, valid)
        isig2 == IF hit THEN isig + 1 ELSE isig
        m2 == IF hit THEN m - 1 ELSE m
    IN
    IF ValidateSignature(sig, flags) # ""
      THEN WalkResult(FALSE, ValidateSignature(sig, flags))
    ELSE IF ValidateKey(key, flags, version) # ""
      THEN WalkResult(FALSE, ValidateKey(key, flags, version))
    ELSE IF m2 > n - 1 THEN WalkResult(FALSE, "")
    ELSE MultisigWalk(stack, isig2, ikey + 1, m2, n - 1, flags, version, valid)

\* a loop that tests every element it pops for NULLFAIL, the counts and the
\* keys too
RECURSIVE MultisigPopTestsAll(_, _, _, _, _)
MultisigPopTestsAll(stack, i, ikey2, res, flags) ==
  IF i <= 1 THEN [stack |-> stack, err |-> ""]
  ELSE IF ~res /\ "NULLFAIL" \in flags /\ Len(Top(stack, 1)) # 0
    THEN [stack |-> stack, err |-> "NULLFAIL"]
  ELSE MultisigPopTestsAll(Pop(stack), i - 1, IF ikey2 > 0 THEN ikey2 - 1 ELSE 0,
                           res, flags)

\* the loop that pops the counts, the keys and the signatures (script.js
\* 1082-1090): the stack it leaves, or the NULLFAIL it throws
RECURSIVE MultisigPop(_, _, _, _, _)
MultisigPop(stack, i, ikey2, res, flags) ==
  IF i <= 1 THEN [stack |-> stack, err |-> ""]
  ELSE IF ~res /\ "NULLFAIL" \in flags /\ ikey2 = 0 /\ Len(Top(stack, 1)) # 0
    THEN [stack |-> stack, err |-> "NULLFAIL"]
  ELSE MultisigPop(Pop(stack), i - 1, IF ikey2 > 0 THEN ikey2 - 1 ELSE 0,
                   res, flags)

\* Script.isDummy
IsDummy(data) == Len(data) = 0

\* OP_CHECKMULTISIG and OP_CHECKMULTISIGVERIFY (script.js 1007-1108)
StepCheckMultisig(e, op, flags, tx, valid) ==
  IF ~tx.present THEN Throw(e, "UNKNOWN_ERROR")
  ELSE IF Len(e.stack) < 1 THEN Throw(e, "INVALID_STACK_OPERATION")
  ELSE
    LET nNum == ScriptNum(Top(e.stack, 1), flags, NUM_SIZE)
        n == BNToInt(nNum.val)
        e1 == [e EXCEPT !.opCount = @ + n]
        ikey == 2
        mNum == ScriptNum(Top(e.stack, n + 2), flags, NUM_SIZE)
        m == BNToInt(mNum.val)
        isig == n + 3
        i == n + m + 3
        walk == MultisigWalk(e.stack, isig, ikey, m, n, flags, e.version, valid)
        popped == MultisigPop(e.stack, i, n + 2, walk.res, flags)
        pushed == Append(Pop(popped.stack),
                         IF walk.res THEN STACK_TRUE ELSE STACK_FALSE)
    IN
    IF ~nNum.ok THEN Throw(e, "UNKNOWN_ERROR")
    ELSE IF ~(n >= 0 /\ n <= MAX_MULTISIG_PUBKEYS) THEN Throw(e, "PUBKEY_COUNT")
    ELSE IF e1.opCount > MAX_OPS THEN Throw(e1, "OP_COUNT")
    ELSE IF Len(e.stack) < n + 2 THEN Throw(e1, "INVALID_STACK_OPERATION")
    ELSE IF ~mNum.ok THEN Throw(e1, "UNKNOWN_ERROR")
    ELSE IF ~(m >= 0 /\ m <= n) THEN Throw(e1, "SIG_COUNT")
    ELSE IF Len(e.stack) < i THEN Throw(e1, "INVALID_STACK_OPERATION")
    ELSE IF walk.err # "" THEN Throw(e1, walk.err)
    ELSE IF popped.err # "" THEN Throw(e1, popped.err)
    ELSE IF Len(popped.stack) < 1 THEN Throw(e1, "INVALID_STACK_OPERATION")
    ELSE IF "NULLDUMMY" \in flags /\ ~IsDummy(Top(popped.stack, 1))
      THEN Throw(e1, "SIG_NULLDUMMY")
    ELSE IF op.value = OP_CHECKMULTISIGVERIFY THEN
      IF ~walk.res THEN Throw([e1 EXCEPT !.stack = pushed], "CHECKMULTISIGVERIFY")
      ELSE WithStack(e1, Pop(pushed))
    ELSE WithStack(e1, pushed)

\* the switch over the opcodes of an executed branch (script.js 439-1224)
StepSwitch(e, op, flags, tx, valid) ==
  LET v == op.value IN
  IF v = OP_0 THEN WithStack(e, Append(e.stack, STACK_FALSE))
  ELSE IF v = OP_1NEGATE THEN WithStack(e, Append(e.stack, STACK_NEGATE))
  ELSE IF v >= OP_1 /\ v <= OP_16 THEN WithStack(e, Append(e.stack, <<v - 80>>))
  ELSE IF v = OP_NOP THEN Continue(e)
  ELSE IF v \in {OP_CHECKLOCKTIMEVERIFY, OP_CHECKSEQUENCEVERIFY}
    THEN StepLocktime(e, op, flags, tx)
  ELSE IF v \in OP_NOPS THEN
    IF "DISCOURAGE_UPGRADABLE_NOPS" \in flags
      THEN Throw(e, "DISCOURAGE_UPGRADABLE_NOPS")
      ELSE Continue(e)
  ELSE IF v = OP_RETURN THEN Throw(e, "OP_RETURN")
  ELSE IF v \in StackOps THEN StepStack(e, op, flags)
  ELSE IF v \in {OP_EQUAL, OP_EQUALVERIFY} THEN StepEqual(e, op)
  ELSE IF v \in UnaryOps THEN StepUnary(e, op, flags)
  ELSE IF v \in BinaryOps THEN StepBinary(e, op, flags)
  ELSE IF v = OP_WITHIN THEN StepWithin(e, flags)
  ELSE IF v \in HashOps THEN StepHash(e, op)
  ELSE IF v = OP_CODESEPARATOR THEN Continue([e EXCEPT !.lastSep = e.ip + 1])
  ELSE IF v \in {OP_CHECKSIG, OP_CHECKSIGVERIFY}
    THEN StepChecksig(e, op, flags, tx, valid)
  ELSE IF v \in {OP_CHECKMULTISIG, OP_CHECKMULTISIGVERIFY}
    THEN StepCheckMultisig(e, op, flags, tx, valid)
  ELSE IF v \in {OP_CAT, OP_SUBSTR, OP_LEFT, OP_RIGHT, OP_INVERT, OP_AND, OP_OR,
                 OP_XOR, OP_2MUL, OP_2DIV, OP_MUL, OP_DIV, OP_MOD, OP_LSHIFT,
                 OP_RSHIFT}
    THEN Continue([e EXCEPT !.body = TRUE])
  ELSE Throw(e, "BAD_OPCODE")

\* a loop body that counts only the opcodes of executed branches
ExecStepOpCountsExecuted(e, flags, tx, valid) ==
  LET op == e.code[e.ip + 1]
      counted == op.value > OP_16 /\ e.negate = 0
      e1 == IF counted THEN [e EXCEPT !.opCount = @ + 1] ELSE e
  IN
  IF op.value = -1 THEN Throw(e, "BAD_OPCODE")
  ELSE IF op.push THEN StepPush(e, op, flags)
  ELSE IF counted /\ e1.opCount > MAX_OPS THEN Throw(e1, "OP_COUNT")
  ELSE IF op.value \in DisabledOps THEN Throw(e1, "DISABLED_OPCODE")
  ELSE IF op.value >= OP_IF /\ op.value <= OP_ENDIF THEN StepCond(e1, op, flags)
  ELSE IF e1.negate # 0 THEN Continue(e1)
  ELSE StepSwitch(e1, op, flags, tx, valid)

\* the body of the for loop for the opcode at ip (script.js 318-1225)
ExecStepOp(e, flags, tx, valid) ==
  LET op == e.code[e.ip + 1]
      counted == op.value > OP_16
      e1 == IF counted THEN [e EXCEPT !.opCount = @ + 1] ELSE e
  IN
  IF op.value = -1 THEN Throw(e, "BAD_OPCODE")
  ELSE IF op.push THEN StepPush(e, op, flags)
  ELSE IF counted /\ e1.opCount > MAX_OPS THEN Throw(e1, "OP_COUNT")
  ELSE IF op.value \in DisabledOps THEN Throw(e1, "DISABLED_OPCODE")
  ELSE IF op.value >= OP_IF /\ op.value <= OP_ENDIF THEN StepCond(e1, op, flags)
  ELSE IF e1.negate # 0 THEN Continue(e1)
  ELSE StepSwitch(e1, op, flags, tx, valid)

\* what execute does before the loop (script.js 315-316): the error, or ""
ExecEnter(script) ==
  IF GetSize(script) > MAX_SCRIPT_SIZE THEN "SCRIPT_SIZE" ELSE ""

\* what execute does after the loop (script.js 1227-1233): the error, or ""
ExecLeave(e) ==
  IF Len(e.stack) + Len(e.alt) > MAX_STACK THEN "STACK_SIZE"
  ELSE IF Len(e.state) # 0 THEN "UNBALANCED_CONDITIONAL"
  ELSE ""

(***************************************************************************)
(* Witness programs (script.js 2170-2200, 3460-3517)                       *)
(***************************************************************************)

\* Script.getSmall
GetSmall(op) ==
  IF op = OP_0 THEN 0
  ELSE IF op >= OP_1 /\ op <= OP_16 THEN op - 80
  ELSE -1

\* Script.prototype.isProgram
IsProgram(script) ==
  LET raw == script.raw IN
  /\ Len(raw) >= 4 /\ Len(raw) <= 42
  /\ (raw[1] = OP_0 \/ (raw[1] >= OP_1 /\ raw[1] <= OP_16))
  /\ raw[2] + 2 = Len(raw)

\* Script.prototype.toProgram, of a script that is a program
ToProgram(script) ==
  [version |-> GetSmall(script.raw[1]),
   data |-> SubSeq(script.raw, 3, Len(script.raw))]

\* Script.fromPubkeyhash
FromPubkeyhash(hash) ==
  [raw |-> P2PKHRaw(hash),
   code |-> <<PlainOp(OP_DUP), PlainOp(OP_HASH160), PushOp(20, hash),
              PlainOp(OP_EQUALVERIFY), PlainOp(OP_CHECKSIG)>>]

\* crypto.sha256
Sha256(data) == Digest(OP_SHA256, data, 32)

\* what verifyProgram does before it executes a script: it throws err, or
\* returns true at once, or goes on to execute redeem on stack
ProgramThrows(err) ==
  [err |-> err, returns |-> FALSE, redeem |-> ScriptFromRaw(<<>>), stack |-> <<>>]
ProgramReturns ==
  [err |-> "", returns |-> TRUE, redeem |-> ScriptFromRaw(<<>>), stack |-> <<>>]

\* the push limits of the witness (script.js 3503-3507)
ProgramExecutes(redeem, stack) ==
  IF \E j \in 1..Len(stack) : Len(stack[j]) > MAX_PUSH
    THEN ProgramThrows("PUSH_SIZE")
    ELSE [err |-> "", returns |-> FALSE, redeem |-> redeem, stack |-> stack]

\* a 20-byte program that does not ask for two witness items
ProgramKeyhashAnyCount(program, stack) ==
  ProgramExecutes(FromPubkeyhash(program.data), stack)

\* the 20-byte program of version 0 (script.js 3479-3483)
ProgramKeyhash(program, stack) ==
  IF Len(stack) # 2 THEN ProgramThrows("WITNESS_PROGRAM_MISMATCH")
  ELSE ProgramExecutes(FromPubkeyhash(program.data), stack)

\* Script.verifyProgram up to redeem.execute (script.js 3460-3507); of
\* verifyMast only the first test is followed
VerifyProgramEnter(witness, output, flags) ==
  LET program == ToProgram(output)
      stack == witness
  IN
  IF program.version = 0 THEN
    IF Len(program.data) = 32 THEN
      IF Len(stack) = 0 THEN ProgramThrows("WITNESS_PROGRAM_WITNESS_EMPTY")
      ELSE IF Sha256(Top(stack, 1)) # program.data
        THEN ProgramThrows("WITNESS_PROGRAM_MISMATCH")
      ELSE ProgramExecutes(ScriptFromRaw(Top(stack, 1)), Pop(stack))
    ELSE IF Len(program.data) = 20 THEN ProgramKeyhash(program, stack)
    ELSE ProgramThrows("WITNESS_PROGRAM_WRONG_LENGTH")
  ELSE IF "MAST" \in flags /\ program.version = 1
    THEN ProgramThrows("INVALID_MAST_STACK")
  ELSE IF "DISCOURAGE_UPGRADABLE_WITNESS_PROGRAM" \in flags
    THEN ProgramThrows("DISCOURAGE_UPGRADABLE_WITNESS_PROGRAM")
  ELSE ProgramReturns

\* Opcode.fromPush
FromPush(data) ==
  IF Len(data) <= MAX_DIRECT_PUSH THEN PushOp(Len(data), data)
  ELSE IF Len(data) <= 255 THEN PushOp(OP_PUSHDATA1, data)
  ELSE PushOp(OP_PUSHDATA2, data)

\* the input script of a native witness spend is not empty (script.js 3381)
Malleated(input) == Len(input.raw) # 0

\* a test of the input script of a nested witness spend that lets all pass
MalleatedP2SHNever(input, raw) == FALSE

\* the input script of a nested witness spend is not the one push of the
\* redeem script (script.js 3419)
MalleatedP2SH(input, raw) == input.raw # EncodeOp(FromPush(raw))

\* a stack left as it is
TruncateNothing(stack) == stack

\* stack.length = 1, of a stack that is not empty
Truncate(stack) == SubSeq(stack, 1, 1)

(***************************************************************************)
(* Script.verify (script.js 3349-3445): the input script, the output       *)
(* script, the P2SH redeem script and the script of a witness program are  *)
(* executed one opcode at a time.                                          *)
(***************************************************************************)

Running == vfPc \in {"input", "output", "redeem", "program", "nested"}

Returned(ok, err) == [ok |-> ok, err |-> err]
NotReturned == Returned(FALSE, "")

\* verify ends by throwing err
VerifyThrows(err) ==
  /\ vfPc' = "done"
  /\ vfRet' = Returned(FALSE, err)

\* verify throws err outside execute
VerifyFails(err) == VerifyThrows(err) /\ UNCHANGED <<ex, vfStack>>

\* script.execute(stack, flags, tx, i, version) is called, verify's own
\* stack being outer meanwhile
VerifyCalls(phase, script, stack, version, outer) ==
  IF ExecEnter(script) # ""
    THEN VerifyFails(ExecEnter(script))
    ELSE /\ vfPc' = phase
         /\ ex' = Frame(script, stack, version)
         /\ vfStack' = outer
         /\ UNCHANGED vfRet

\* the end checks without the test of hadWitness
VerifyEndsAnyWitness(stack, had) ==
  /\ UNCHANGED ex
  /\ vfStack' = stack
  /\ IF "CLEANSTACK" \in vfArgs.flags /\ "P2SH" \notin vfArgs.flags
       THEN VerifyThrows("AssertionError")
     ELSE IF "CLEANSTACK" \in vfArgs.flags /\ Len(stack) # 1
       THEN VerifyThrows("CLEANSTACK")
     ELSE IF "WITNESS" \in vfArgs.flags /\ "P2SH" \notin vfArgs.flags
       THEN VerifyThrows("AssertionError")
     ELSE vfPc' = "done" /\ vfRet' = Returned(TRUE, "")

\* the checks that end verify (script.js 3426-3442)
VerifyEnds(stack, had) ==
  /\ UNCHANGED ex
  /\ vfStack' = stack
  /\ IF "CLEANSTACK" \in vfArgs.flags /\ "P2SH" \notin vfArgs.flags
       THEN VerifyThrows("AssertionError")
     ELSE IF "CLEANSTACK" \in vfArgs.flags /\ Len(stack) # 1
       THEN VerifyThrows("CLEANSTACK")
     ELSE IF "WITNESS" \in vfArgs.flags /\ "P2SH" \notin vfArgs.flags
       THEN VerifyThrows("AssertionError")
     ELSE IF "WITNESS" \in vfArgs.flags /\ ~had /\ Len(vfArgs.witness) > 0
       THEN VerifyThrows("WITNESS_UNEXPECTED")
     ELSE vfPc' = "done" /\ vfRet' = Returned(TRUE, "")

\* a P2SH part that takes the redeem script from the stack as the output
\* script left it
VerifyP2SHOnOutputStack(stack, had) ==
  IF "P2SH" \in vfArgs.flags /\ IsScripthash(vfArgs.output) THEN
    IF ~IsPushOnly(vfArgs.input) THEN VerifyFails("SIG_PUSHONLY")
    ELSE VerifyCalls("redeem", ScriptFromRaw(Top(stack, 1)), Pop(stack), 0, vfStack)
  ELSE VerifyEnds(stack, had)

\* the P2SH part of verify up to redeem.execute (script.js 3391-3407), and
\* what follows it when the output is not P2SH
VerifyP2SH(stack, had) ==
  IF "P2SH" \in vfArgs.flags /\ IsScripthash(vfArgs.output) THEN
    IF ~IsPushOnly(vfArgs.input) THEN VerifyFails("SIG_PUSHONLY")
    ELSE IF Len(vfCopy) = 0 THEN VerifyFails("EVAL_FALSE")
    ELSE VerifyCalls("redeem", ScriptFromRaw(Top(vfCopy, 1)), Pop(vfCopy), 0, vfStack)
  ELSE VerifyEnds(stack, had)

\* verify goes on after the witness program of the output script
AfterOutputProgram(stack) == VerifyP2SH(Truncate(stack), TRUE)

\* verify goes on after the witness program of the redeem script
AfterRedeemProgram(stack) == VerifyEnds(Truncate(stack), TRUE)

\* Script.verifyProgram(witness, script, ...) is called with verify's stack
\* being stack
VerifyCallsProgram(phase, script, stack) ==
  LET entered == VerifyProgramEnter(vfArgs.witness, script, vfArgs.flags) IN
  IF entered.err # "" THEN VerifyFails(entered.err)
  ELSE IF entered.returns THEN
    IF phase = "program" THEN AfterOutputProgram(stack) ELSE AfterRedeemProgram(stack)
  ELSE VerifyCalls(phase, entered.redeem, entered.stack, 1, stack)

\* Script.verify up to the call of input.execute
VerifyStart ==
  /\ vfPc = "ready"
  /\ IF "SIGPUSHONLY" \in vfArgs.flags /\ ~IsPushOnly(vfArgs.input)
       THEN VerifyFails("SIG_PUSHONLY")
       ELSE VerifyCalls("input", vfArgs.input, <<>>, 0, vfStack)
  /\ UNCHANGED <<vfArgs, vfCopy, vfHad, ecValid>>
  /\ UNCHANGED notVerify

\* one iteration of the loop of execute; what it throws ends verify
ExecStep ==
  /\ Running
  /\ ex.ip < Len(ex.code)
  /\ ex' = ExecStepOp(ex, vfArgs.flags, vfArgs.tx, ecValid)
  /\ IF ex'.err # "" THEN VerifyThrows(ex'.err) ELSE UNCHANGED <<vfPc, vfRet>>
  /\ UNCHANGED <<vfArgs, vfCopy, vfStack, vfHad, ecValid>>
  /\ UNCHANGED notVerify

\* input.execute returns; verify copies the stack and calls output.execute
VerifyAfterInput ==
  /\ vfPc = "input"
  /\ ex.ip = Len(ex.code)
  /\ IF ExecLeave(ex) # ""
       THEN VerifyFails(ExecLeave(ex)) /\ UNCHANGED vfCopy
       ELSE /\ vfCopy' = IF "P2SH" \in vfArgs.flags THEN ex.stack ELSE vfCopy
            /\ VerifyCalls("output", vfArgs.output, ex.stack, 0, vfStack)
  /\ UNCHANGED <<vfArgs, vfHad, ecValid>>
  /\ UNCHANGED notVerify

\* output.execute returns; verify tests the stack, verifies the program of a
\* witness output, and goes on to the P2SH part
VerifyAfterOutput ==
  /\ vfPc = "output"
  /\ ex.ip = Len(ex.code)
  /\ IF ExecLeave(ex) # "" THEN VerifyFails(ExecLeave(ex)) /\ UNCHANGED vfHad
     ELSE IF Len(ex.stack) = 0 \/ ~ScriptBool(Top(ex.stack, 1))
       THEN VerifyFails("EVAL_FALSE") /\ UNCHANGED vfHad
     ELSE IF "WITNESS" \in vfArgs.flags /\ IsProgram(vfArgs.output) THEN
       /\ vfHad' = TRUE
       /\ IF Malleated(vfArgs.input) THEN VerifyFails("WITNESS_MALLEATED")
          ELSE VerifyCallsProgram("program", vfArgs.output, ex.stack)
     ELSE VerifyP2SH(ex.stack, vfHad) /\ UNCHANGED vfHad
  /\ UNCHANGED <<vfArgs, vfCopy, ecValid>>
  /\ UNCHANGED notVerify

\* redeem.execute returns; verify tests the stack and verifies the program
\* of a witness redeem script
VerifyAfterRedeem ==
  /\ vfPc = "redeem"
  /\ ex.ip = Len(ex.code)
  /\ LET raw == Top(vfCopy, 1)
         redeem == ScriptFromRaw(raw)
     IN
     IF ExecLeave(ex) # "" THEN VerifyFails(ExecLeave(ex)) /\ UNCHANGED vfHad
     ELSE IF Len(ex.stack) = 0 \/ ~ScriptBool(Top(ex.stack, 1))
       THEN VerifyFails("EVAL_FALSE") /\ UNCHANGED vfHad
     ELSE IF "WITNESS" \in vfArgs.flags /\ IsProgram(redeem) THEN
       /\ vfHad' = TRUE
       /\ IF MalleatedP2SH(vfArgs.input, raw)
            THEN VerifyFails("WITNESS_MALLEATED_P2SH")
            ELSE VerifyCallsProgram("nested", redeem, ex.stack)
     ELSE VerifyEnds(ex.stack, vfHad) /\ UNCHANGED vfHad
  /\ UNCHANGED <<vfArgs, vfCopy, ecValid>>
  /\ UNCHANGED notVerify

\* the execute of verifyProgram returns; verifyProgram tests its stack and
\* verify goes on with its own, cut to one element
VerifyAfterProgram ==
  /\ vfPc \in {"program", "nested"}
  /\ ex.ip = Len(ex.code)
  /\ IF ExecLeave(ex) # "" THEN VerifyFails(ExecLeave(ex))
     ELSE IF Len(ex.stack) # 1 \/ ~ScriptBool(Top(ex.stack, 1))
       THEN VerifyFails("EVAL_FALSE")
     ELSE IF vfPc = "program" THEN AfterOutputProgram(vfStack)
     ELSE AfterRedeemProgram(vfStack)
  /\ UNCHANGED <<vfArgs, vfCopy, vfHad, ecValid>>
  /\ UNCHANGED notVerify

VerifyNext ==
  \/ VerifyStart
  \/ ExecStep
  \/ VerifyAfterInput
  \/ VerifyAfterOutput
  \/ VerifyAfterRedeem
  \/ VerifyAfterProgram

(***************************************************************************)
(* The calls of Script.verify checked                                      *)
(***************************************************************************)

\* the most keys of a multisig output, and the most signatures it asks for
MaxKeys == 3
MaxSigs == 2

\* the longest of the short output scripts
MaxScriptLen == 3

\* a direct push of at most 75 bytes
Push(data) == PushOp(Len(data), data)

\* OP_0, OP_1 .. OP_16
SmallInt(k) == PlainOp(IF k = 0 THEN OP_0 ELSE 80 + k)

Repeat(op, k) == [i \in 1..k |-> op]

\* a script of opcodes without data, whose raw bytes are the opcodes
PlainScript(values) ==
  [raw |-> values, code |-> [i \in 1..Len(values) |-> PlainOp(values[i])]]

\* two signatures in DER with hash type ALL
SigA == <<48, 6, 2, 1, 1, 2, 1, 1, 1>>
SigB == <<48, 6, 2, 1, 2, 2, 1, 1, 1>>
NoSig == <<>>

SigMenu == {SigA, SigB, NoSig}

\* a signature as the input script pushes it
PushSig(sig) == IF sig = NoSig THEN PlainOp(OP_0) ELSE Push(sig)

\* compressed public keys
Key(k) == Key33(k)
Keys(n) == [k \in 1..n |-> Key(k)]

\* the transaction verified: present, not locked
TheTx ==
  [present |-> TRUE, version |-> 1, locktime |-> BNZero, sequence |-> BNZero]

WitnessCall(kind, input, witness, output, flags, valid) ==
  [args |-> [kind |-> kind, input |-> input, witness |-> witness,
             output |-> output, flags |-> flags, tx |-> TheTx],
   valid |-> valid]

\* a call with an empty witness
Call(kind, input, output, flags, valid) ==
  WitnessCall(kind, input, <<>>, output, flags, valid)

\* verify is called with these arguments, signatures being valid as the call says
Called(call) == vfArgs = call.args /\ ecValid = call.valid

Min(a, b) == IF a < b THEN a ELSE b

\* OP_0 <sig> ... against OP_m <key> ... OP_n OP_CHECKMULTISIG
MultisigInput(sigs) ==
  ScriptFromCode(<<PlainOp(OP_0)>> \o [j \in 1..Len(sigs) |-> PushSig(sigs[j])])

MultisigOutput(m, n) ==
  ScriptFromCode(<<SmallInt(m)>> \o [k \in 1..n |-> Push(Key(k))]
                   \o <<SmallInt(n), PlainOp(OP_CHECKMULTISIG)>>)

MultisigCalls ==
  \E n \in 0..MaxKeys :
    \E m \in 0..Min(n, MaxSigs) :
      \E sigs \in [1..m -> SigMenu],
         flags \in {{}, {"NULLFAIL"}},
         valid \in SUBSET ({SigA, SigB} \X {Key(k) : k \in 1..n}) :
        Called(Call("multisig", MultisigInput(sigs), MultisigOutput(m, n),
                    flags, valid))

\* <sig> <key> against OP_DUP OP_HASH160 <hash of Key(1)> OP_EQUALVERIFY
\* OP_CHECKSIG
P2PKHOutput(key) ==
  ScriptFromCode(<<PlainOp(OP_DUP), PlainOp(OP_HASH160), Push(Hash160(key)),
                   PlainOp(OP_EQUALVERIFY), PlainOp(OP_CHECKSIG)>>)

P2PKHCalls ==
  \E sig \in SigMenu, key \in {Key(1), Key(2)},
     flags \in {{}, {"NULLFAIL"}, {"NULLFAIL", "STRICTENC"}},
     valid \in SUBSET ({SigA, SigB} \X {Key(1)}) :
    Called(Call("p2pkh", ScriptFromCode(<<PushSig(sig), Push(key)>>),
                P2PKHOutput(Key(1)), flags, valid))

\* <sig> against <key> OP_CHECKSIGVERIFY OP_1
ChecksigVerifyCalls ==
  \E sig \in SigMenu, flags \in {{}, {"NULLFAIL"}},
     valid \in SUBSET ({SigA} \X {Key(1)}) :
    Called(Call("checksigverify", ScriptFromCode(<<PushSig(sig)>>),
                ScriptFromCode(<<Push(Key(1)), PlainOp(OP_CHECKSIGVERIFY),
                                 SmallInt(1)>>),
                flags, valid))

\* scripts at the limits of the stack and of the opcode count
LongScripts ==
  { PlainScript(Repeat(OP_1, k) \o tail) :
      k \in {MAX_STACK, MAX_STACK + 1},
      tail \in {<<>>, <<OP_2DROP>>, <<OP_TOALTSTACK>>} }
  \cup
  { PlainScript(head \o Repeat(OP_NOP, k) \o tail) :
      k \in {MAX_OPS - 2, MAX_OPS - 1, MAX_OPS},
      head \in {<<>>, <<OP_0, OP_IF>>},
      tail \in {<<OP_CAT>>, <<OP_2MUL>>, <<OP_NOP>>} }

\* conditionals at the limits: an opcode of a conditional met as the 201st
\* and as the 202nd opcode above OP_16, and a script that ends in an open
\* conditional with more than MAX_STACK elements
LongConditionals ==
  { PlainScript(Repeat(OP_NOP, k) \o <<last>>) :
      k \in {MAX_OPS - 1, MAX_OPS}, last \in {OP_ELSE, OP_ENDIF, OP_IF} }
  \cup
  { PlainScript(<<OP_0, OP_IF>> \o Repeat(OP_NOP, k) \o <<OP_ELSE>>) :
      k \in {MAX_OPS - 2, MAX_OPS - 1} }
  \cup
  { PlainScript(<<OP_1, OP_IF>> \o Repeat(OP_1, k)) : k \in {MAX_STACK, MAX_STACK + 1} }

LongCalls ==
  \E script \in LongScripts \cup LongConditionals :
    Called(Call("long", PlainScript(<<>>), script, {}, {}))

\* the longest of the scripts of conditionals and pushes
MaxBranchLen == 4

\* a push of one byte written with OP_PUSHDATA1, which is not minimal, and a
\* push of more than MAX_PUSH bytes
LongPush == PushOp(OP_PUSHDATA1, <<5>>)
BigPush == PushOp(OP_PUSHDATA2, [i \in 1..(MAX_PUSH + 1) |-> 1])

\* the opcodes of the scripts of conditionals and pushes
BranchOps ==
  { PlainOp(OP_IF), PlainOp(OP_NOTIF), PlainOp(OP_ELSE), PlainOp(OP_ENDIF),
    PlainOp(OP_1), PlainOp(OP_TOALTSTACK), LongPush, BigPush }

\* the bytes of a script of these opcodes; a push cut short by the end of
\* the script decodes to the parse error, which is therefore the last opcode
BranchRaw(code) ==
  LET bytes(op) == IF op = ParseErrorOp THEN <<OP_PUSHDATA1>>
                   ELSE IF op = LongPush THEN <<OP_PUSHDATA1, 1, 5>>
                   ELSE IF op = BigPush
                     THEN <<OP_PUSHDATA2, (MAX_PUSH + 1) % 256, (MAX_PUSH + 1) \div 256>>
                            \o op.data
                   ELSE <<op.value>>
      join[k \in 0..Len(code)] ==
        IF k = 0 THEN <<>> ELSE join[k - 1] \o bytes(code[k])
  IN join[Len(code)]

\* OP_1 against every script of up to MaxBranchLen of these opcodes, the last
\* of which may be the parse error; under MINIMALDATA, the shortest ones
\* also without it
BranchCalls ==
  \E len \in 0..MaxBranchLen :
    \E code \in [1..len -> BranchOps \cup {ParseErrorOp}],
       flags \in {{"MINIMALDATA"}, {}} :
      /\ \A j \in 1..(len - 1) : code[j] # ParseErrorOp
      /\ flags = {} => len <= 2
      /\ Called(Call("branch", PlainScript(<<OP_1>>),
                     [raw |-> BranchRaw(code), code |-> code], flags, {}))

\* the opcode values execute has no case for: OP_RESERVED, OP_VER,
\* OP_RESERVED1, OP_RESERVED2 and the values above OP_NOP10
UnnamedOps == {80, 98, 137, 138} \cup ((OP_NOP10 + 1)..255)

\* opcodes that throw where they stand or where they are executed
BadOps == {OP_VERIF, OP_VERNOTIF, OP_RETURN, 80, 98, 137, 138, OP_NOP10 + 1, 255}

\* OP_0 and OP_1 against OP_IF x y OP_ENDIF OP_1, and x as the 201st and as
\* the 202nd opcode above OP_16, in an executed branch and in a skipped one
BadOpScripts ==
  { PlainScript(<<OP_IF, x, y, OP_ENDIF, OP_1>>) : x \in BadOps, y \in BadOps }
  \cup
  { PlainScript(<<OP_IF>> \o Repeat(OP_NOP, k) \o <<x>>) :
      k \in {MAX_OPS - 2, MAX_OPS - 1}, x \in BadOps }

BadOpCalls ==
  \E c \in {OP_0, OP_1}, script \in BadOpScripts :
    Called(Call("badop", PlainScript(<<c>>), script, {}, {}))

\* the opcodes of the short scripts
ShortOps ==
  {OP_0, OP_1, OP_IF, OP_NOTIF, OP_ELSE, OP_ENDIF, OP_VERIF, OP_CAT, OP_RSHIFT,
   OP_DUP, OP_ADD, OP_TOALTSTACK}

ShortCalls ==
  \E len \in 0..MaxScriptLen :
    \E values \in [1..len -> ShortOps] :
      Called(Call("short", PlainScript(<<OP_1>>), PlainScript(values), {}, {}))

\* pay-to-script-hash: the redeem script pushed by the input
P2SHOutput(redeem) ==
  ScriptFromCode(<<PlainOp(OP_HASH160), Push(Hash160(redeem.raw)),
                   PlainOp(OP_EQUAL)>>)

RedeemScripts ==
  { PlainScript(<<OP_1>>), PlainScript(<<OP_0>>), PlainScript(<<OP_0, OP_IF, OP_CAT>>),
    ScriptFromCode(<<Push(Key(1)), PlainOp(OP_CHECKSIG)>>) }

P2SHCalls ==
  \/ \E sig \in {SigA, NoSig}, redeem \in RedeemScripts,
        flags \in {{"P2SH"}, {"P2SH", "NULLFAIL"}, {"P2SH", "CLEANSTACK"}, {}},
        valid \in SUBSET ({SigA} \X {Key(1)}) :
       Called(Call("p2sh", ScriptFromCode(<<PushSig(sig), Push(redeem.raw)>>),
                   P2SHOutput(redeem), flags, valid))
  \/ \E flags \in {{"P2SH"}, {"SIGPUSHONLY"}} :
       Called(Call("p2sh", PlainScript(<<OP_1, OP_DUP>>),
                   P2SHOutput(PlainScript(<<OP_1>>)), flags, {}))

\* the most witness items under the witness script of a P2WSH spend
MaxWitness == 2

\* a witness program as an output script: the version, then a push of data
ProgramScript(version, data) ==
  ScriptFromRaw(<<SmallInt(version).value, Len(data)>> \o data)

\* the flags of the calls with a witness
WitnessFlags ==
  { {"WITNESS", "P2SH"}, {"WITNESS", "P2SH", "CLEANSTACK"}, {"P2SH"}, {"WITNESS"},
    {"WITNESS", "P2SH", "DISCOURAGE_UPGRADABLE_WITNESS_PROGRAM"} }

\* input scripts of a native witness spend: empty as it must be, or not
NativeInputs == { PlainScript(<<>>), PlainScript(<<OP_1>>) }

\* <key> OP_CHECKSIG
KeyChecksigRaw == EncodeOp(Push(Key(1))) \o <<OP_CHECKSIG>>

\* witness scripts
WitnessScripts ==
  { <<OP_1>>, <<OP_0>>, <<OP_1, OP_1>>, <<>>, <<OP_DROP>>, KeyChecksigRaw }

\* witness items: false, true, a signature, and an item above MAX_PUSH
BigItem == [i \in 1..(MAX_PUSH + 1) |-> 1]
WitnessItems == { <<>>, <<1>>, SigA, BigItem }

\* P2WSH: OP_0 <sha256 of a witness script>, the witness ending with a
\* witness script that is the committed one or another
P2WSHCalls ==
  \E script \in WitnessScripts, input \in NativeInputs,
     flags \in {{"WITNESS", "P2SH"}, {"WITNESS", "P2SH", "CLEANSTACK"}},
     valid \in SUBSET ({SigA} \X {Key(1)}) :
    \E len \in 0..MaxWitness :
      \E items \in [1..len -> WitnessItems] :
        \E witness \in {items \o <<script>>, items \o <<(<<OP_1>>)>>, items} :
          Called(WitnessCall("p2wsh", input, witness,
                             ProgramScript(0, Sha256(script)), flags, valid))

\* P2WPKH: OP_0 <hash160 of Key(1)>, the witness being signatures and keys
P2WPKHCalls ==
  \E input \in NativeInputs, flags \in WitnessFlags,
     valid \in SUBSET ({SigA} \X {Key(1)}) :
    \E len \in 0..(MaxWitness + 1) :
      \E witness \in [1..len -> {SigA, NoSig, Key(1), Key(2)}] :
        Called(WitnessCall("p2wpkh", input, witness,
                           ProgramScript(0, Hash160(Key(1))), flags, valid))

\* outputs that are programs of other lengths and versions, a program that
\* leaves a false top, and outputs that are no program
OtherOutputs ==
  { ProgramScript(0, <<1, 2, 3, 4>>), ProgramScript(1, <<1, 2>>),
    ProgramScript(0, Hash20(0)), PlainScript(<<OP_1>>), PlainScript(<<OP_1, OP_1>>),
    PlainScript(<<OP_0>>) }

OtherWitnessCalls ==
  \E output \in OtherOutputs, input \in NativeInputs, flags \in WitnessFlags,
     witness \in {<<>>, <<(<<1>>)>>, <<SigA, Key(1)>>} :
    Called(WitnessCall("other", input, witness, output, flags, {}))

\* redeem scripts of P2SH spends with a witness: programs and a plain one
NestedRedeems ==
  { ProgramScript(0, Hash160(Key(1))), ProgramScript(0, Sha256(<<OP_1>>)),
    ProgramScript(1, <<1, 2>>), ProgramScript(0, <<1, 2, 3, 4>>),
    PlainScript(<<OP_1>>) }

\* the input scripts of a P2SH spend of redeem: its one canonical push, the
\* push after another, the push written with OP_PUSHDATA1, the push followed
\* by an opcode that is no push, and the empty script
NestedInputs(redeem) ==
  { ScriptFromRaw(EncodeOp(Push(redeem.raw))),
    ScriptFromRaw(<<OP_1>> \o EncodeOp(Push(redeem.raw))),
    ScriptFromRaw(<<OP_PUSHDATA1, Len(redeem.raw)>> \o redeem.raw),
    ScriptFromRaw(EncodeOp(Push(redeem.raw)) \o <<OP_NOP>>),
    PlainScript(<<>>) }

NestedCalls ==
  \E redeem \in NestedRedeems, flags \in WitnessFlags,
     witness \in {<<>>, <<(<<1>>)>>, <<SigA, Key(1)>>, <<(<<OP_1>>)>>},
     valid \in SUBSET ({SigA} \X {Key(1)}) :
    \E input \in NestedInputs(redeem) :
      Called(WitnessCall("nested", input, witness, P2SHOutput(redeem), flags, valid))

\* a multisig output after opcodes that bring the count to the limit: n keys
\* after k opcodes above OP_16, in an executed branch or in a skipped one
OpCountOutput(k, n, skipped) ==
  LET head == PlainScript(IF skipped
                            THEN <<OP_0, OP_IF>> \o Repeat(OP_NOP, k - 2) \o <<OP_ENDIF>>
                            ELSE Repeat(OP_NOP, k))
      tail == MultisigOutput(1, n)
  IN [raw |-> head.raw \o tail.raw, code |-> head.code \o tail.code]

OpCountCalls ==
  \E n \in 1..MaxKeys, over \in {-1, 0, 1}, skipped \in BOOLEAN :
    Called(Call("opcount", MultisigInput(<<SigA>>),
                OpCountOutput(MAX_OPS - 1 - n + over, n, skipped),
                {}, {<<SigA, Key(1)>>}))

VerifyCallsChecked ==
  \/ MultisigCalls
  \/ OpCountCalls
  \/ BranchCalls
  \/ BadOpCalls
  \/ P2PKHCalls
  \/ ChecksigVerifyCalls
  \/ LongCalls
  \/ ShortCalls
  \/ P2SHCalls
  \/ P2WSHCalls
  \/ P2WPKHCalls
  \/ OtherWitnessCalls
  \/ NestedCalls

VerifyInit ==
  /\ vfPc = "ready"
  /\ VerifyCallsChecked
  /\ ex = Frame(PlainScript(<<>>), <<>>, 0)
  /\ vfCopy = <<>>
  /\ vfStack = <<>>
  /\ vfHad = FALSE
  /\ vfRet = NotReturned
  /\ VerifyOthersIdle

SpecVerify == VerifyInit /\ [][VerifyNext]_vars

\* execute stands at an opcode: the loop has not ended
AtOp == ex.ip < Len(ex.code)

\* the opcode at ip
CurOp == ex.code[ex.ip + 1]

\* execute threw at the opcode at ip
ThrewAtOp == vfPc = "done" /\ ex.err # "" /\ AtOp

\* what the loop body makes of the frame of a running execute
NextFrame == ExecStepOp(ex, vfArgs.flags, vfArgs.tx, ecValid)

\* C7: while execute runs, after every opcode, the elements of the stack and
\* of the alt stack together are at most 1000.
C7_StackBound ==
  Running => Len(ex.stack) + Len(ex.alt) <= MAX_STACK

\* the opcodes C8 names
C8_Opcodes ==
  {OP_CAT, OP_SUBSTR, OP_LEFT, OP_RIGHT, OP_INVERT, OP_AND, OP_OR, OP_XOR,
   OP_2MUL, OP_2DIV, OP_MUL, OP_DIV, OP_MOD, OP_LSHIFT, OP_RSHIFT}

\* the instruction pointer never gets past one of the opcodes C8 names, and
\* their bodies in the switch never run
C8_NeverPassed ==
  /\ \A j \in 1..ex.ip : ex.code[j].push \/ ex.code[j].value \notin C8_Opcodes
  /\ ~ex.body

SigsOf(args) == [j \in 1..(Len(args.input.code) - 1) |-> args.input.code[j + 1].data]
KeysOf(args) == [k \in 1..(Len(args.output.code) - 3) |-> args.output.code[k + 1].data]

\* the signatures can be matched, in order, to distinct keys in key order so
\* that each pair verifies
Matchable(sigs, keys, valid) ==
  \E f \in [1..Len(sigs) -> 1..Len(keys)] :
    /\ \A a, b \in 1..Len(sigs) : a < b => f[a] < f[b]
    /\ \A j \in 1..Len(sigs) : sigs[j] # NoSig /\ <<sigs[j], keys[f[j]]>> \in valid

\* C9: OP_CHECKMULTISIG pushes true exactly when the m signatures can be
\* matched, in their stack order, to m distinct keys in key order so that each
\* pair verifies; a walk that fails pushes false, or throws NULLFAIL under
\* that flag, and verify then ends EVAL_FALSE or NULLFAIL.
C9_GreedyIsMatching ==
  vfArgs.kind = "multisig" =>
    LET matched == Matchable(SigsOf(vfArgs), KeysOf(vfArgs), ecValid) IN
    /\ (vfPc = "output" /\ ~AtOp) =>
         ex.stack = <<IF matched THEN STACK_TRUE ELSE STACK_FALSE>>
    /\ vfPc = "done" =>
         /\ vfRet.ok <=> matched
         /\ ~vfRet.ok => vfRet.err \in {"EVAL_FALSE", "NULLFAIL"}
         /\ vfRet.err = "NULLFAIL" =>
              /\ "NULLFAIL" \in vfArgs.flags
              /\ \E j \in 1..Len(SigsOf(vfArgs)) : SigsOf(vfArgs)[j] # NoSig

\* three keys, and two signatures valid for the first and the second key but
\* pushed in the other order: the walk fails and verify ends EVAL_FALSE
C9_Witness ==
  /\ vfArgs.kind = "multisig"
  /\ vfPc = "done"
  /\ Len(KeysOf(vfArgs)) = 3
  /\ SigsOf(vfArgs) = <<SigB, SigA>>
  /\ ecValid = {<<SigA, Key(1)>>, <<SigB, Key(2)>>}
  /\ vfArgs.flags = {}
  /\ vfRet = Returned(FALSE, "EVAL_FALSE")

\* execute stands at an OP_CHECKSIG or OP_CHECKSIGVERIFY that will run its
\* signature check under NULLFAIL
AtChecksig ==
  /\ Running
  /\ AtOp
  /\ ~CurOp.push
  /\ CurOp.value \in {OP_CHECKSIG, OP_CHECKSIGVERIFY}
  /\ ex.negate = 0
  /\ ex.opCount < MAX_OPS
  /\ Len(ex.stack) >= 2
  /\ "NULLFAIL" \in vfArgs.flags
  /\ ValidateSignature(Top(ex.stack, 2), vfArgs.flags) = ""
  /\ ValidateKey(Top(ex.stack, 1), vfArgs.flags, ex.version) = ""

\* C10: under NULLFAIL, an OP_CHECKSIG or OP_CHECKSIGVERIFY whose signature
\* check fails throws NULLFAIL when the signature is not empty; with an
\* empty signature it does not, OP_CHECKSIG pushes false, and a P2PKH verify
\* with an empty signature and the committed key ends EVAL_FALSE.
C10_NullFail ==
  /\ AtChecksig =>
       LET sig == Top(ex.stack, 2)
           key == Top(ex.stack, 1)
       IN
       /\ (sig # NoSig /\ <<sig, key>> \notin ecValid) => NextFrame.err = "NULLFAIL"
       /\ sig = NoSig =>
            /\ NextFrame.err # "NULLFAIL"
            /\ CurOp.value = OP_CHECKSIG =>
                 /\ NextFrame.err = ""
                 /\ NextFrame.stack = Append(PopN(ex.stack, 2), STACK_FALSE)
            /\ CurOp.value = OP_CHECKSIGVERIFY => NextFrame.err = "CHECKSIGVERIFY"
  /\ (ThrewAtOp /\ ex.err = "NULLFAIL"
        /\ CurOp.value \in {OP_CHECKSIG, OP_CHECKSIGVERIFY}) =>
       /\ "NULLFAIL" \in vfArgs.flags
       /\ Top(ex.stack, 2) # NoSig
       /\ <<Top(ex.stack, 2), Top(ex.stack, 1)>> \notin ecValid
  /\ (/\ vfArgs.kind = "p2pkh"
      /\ "NULLFAIL" \in vfArgs.flags
      /\ vfArgs.input.code = <<PushSig(NoSig), Push(Key(1))>>
      /\ vfPc = "done") =>
       vfRet = Returned(FALSE, "EVAL_FALSE")

\* a P2PKH verify under NULLFAIL with an empty signature and the committed
\* key ended EVAL_FALSE, the OP_CHECKSIG having pushed false
C10_Witness ==
  /\ vfArgs.kind = "p2pkh"
  /\ vfArgs.flags = {"NULLFAIL"}
  /\ vfArgs.input.code = <<PushSig(NoSig), Push(Key(1))>>
  /\ vfPc = "done"
  /\ ex.stack = <<STACK_FALSE>>
  /\ vfRet = Returned(FALSE, "EVAL_FALSE")

\* a P2PKH verify has returned whose input pushed a nonempty signature and
\* the committed key, the signature not being valid for the key
P2PKHFailingSig ==
  /\ vfArgs.kind = "p2pkh"
  /\ vfPc = "done"
  /\ \E sig \in {SigA, SigB} :
       /\ vfArgs.input.code = <<PushSig(sig), Push(Key(1))>>
       /\ <<sig, Key(1)>> \notin ecValid

\* C11 as stated: in the P2PKH scenario without NULLFAIL, a nonempty
\* signature that fails verification makes Script.verify yield NULLFAIL.
C11_AsStated ==
  (P2PKHFailingSig /\ "NULLFAIL" \notin vfArgs.flags) =>
    vfRet = Returned(FALSE, "NULLFAIL")

\* C11: in the P2PKH scenario a nonempty signature that fails verification
\* makes Script.verify yield EVAL_FALSE when NULLFAIL is not set, and the
\* NULLFAIL error when NULLFAIL is set.
C11_NullFailNeedsFlag ==
  P2PKHFailingSig =>
    vfRet = Returned(FALSE, IF "NULLFAIL" \in vfArgs.flags
                              THEN "NULLFAIL" ELSE "EVAL_FALSE")

\* a P2PKH verify without NULLFAIL, of a nonempty failing signature, ended
\* EVAL_FALSE with the false pushed by OP_CHECKSIG on the stack
C11_Witness ==
  /\ P2PKHFailingSig
  /\ vfArgs.flags = {}
  /\ ex.stack = <<STACK_FALSE>>
  /\ vfRet = Returned(FALSE, "EVAL_FALSE")

\* an execute of verify has run to the end of its script and leaves a stack
\* that passes verify's test of the top
PassedIn(phase) ==
  /\ vfPc = phase
  /\ ex.ip = Len(ex.code)
  /\ ExecLeave(ex) = ""
  /\ Len(ex.stack) > 0
  /\ ScriptBool(Top(ex.stack, 1))

\* the redeem script of a P2SH spend
RedeemOf == ScriptFromRaw(Top(vfCopy, 1))

\* the output script has passed, is a witness program, and the input script
\* is not empty
MalleatedNative ==
  /\ PassedIn("output")
  /\ "WITNESS" \in vfArgs.flags
  /\ IsProgram(vfArgs.output)
  /\ vfArgs.input.raw # <<>>

\* the redeem script has passed, is a witness program, and the input script
\* is not the one canonical push of it
MalleatedNested ==
  /\ PassedIn("redeem")
  /\ "WITNESS" \in vfArgs.flags
  /\ IsProgram(RedeemOf)
  /\ vfArgs.input.raw # <<Len(RedeemOf.raw)>> \o RedeemOf.raw

C13_CleanStack ==
  vfPc = "done" =>
    /\ (vfRet.ok /\ "CLEANSTACK" \in vfArgs.flags) => Len(vfStack) = 1
    /\ (vfRet.ok /\ vfHad) => Len(vfStack) = 1
    /\ vfRet.err = "CLEANSTACK" =>
         /\ ~vfHad
         /\ "CLEANSTACK" \in vfArgs.flags
         /\ Len(vfStack) # 1

\* a P2WSH spend under CLEANSTACK returned true: the output script had left
\* the empty vector and the program on the stack, the witness script was
\* executed under sigversion 1, and verify ended with the empty vector alone
C13_Witness ==
  /\ vfArgs.kind = "p2wsh"
  /\ vfPc = "done"
  /\ "CLEANSTACK" \in vfArgs.flags
  /\ vfRet = Returned(TRUE, "")
  /\ vfHad
  /\ ex.version = 1
  /\ vfStack = <<STACK_FALSE>>

\* the last script of a spend without a witness program has passed, under
\* WITNESS and P2SH, and the stack passes the CLEANSTACK test if there is one
PassedWithoutProgram ==
  /\ "WITNESS" \in vfArgs.flags
  /\ "P2SH" \in vfArgs.flags
  /\ \/ /\ PassedIn("output")
        /\ ~IsProgram(vfArgs.output)
        /\ ~IsScripthash(vfArgs.output)
     \/ /\ PassedIn("redeem")
        /\ ~IsProgram(RedeemOf)
  /\ "CLEANSTACK" \in vfArgs.flags => Len(ex.stack) = 1

AtP2SH ==
  /\ PassedIn("output")
  /\ "P2SH" \in vfArgs.flags
  /\ IsScripthash(vfArgs.output)

\* the snapshot is the stack as the input script left it, and the execution
\* of the output script leaves it alone
SnapshotKept ==
  /\ (vfPc = "input" /\ vfPc' = "output" /\ "P2SH" \in vfArgs.flags) =>
       vfCopy' = ex.stack
  /\ vfPc = "output" => vfCopy' = vfCopy

\* the redeem script is entered from a passed P2SH output with a push-only
\* input, as the popped top of the snapshot, on the rest of the snapshot
RedeemEntered ==
  (vfPc # "redeem" /\ vfPc' = "redeem") =>
    /\ AtP2SH
    /\ IsPushOnly(vfArgs.input)
    /\ ex' = Frame(ScriptFromRaw(Top(vfCopy, 1)), Pop(vfCopy), 0)

\* what the P2SH path does once the output script has passed
P2SHSteps ==
  /\ (AtP2SH /\ ~IsPushOnly(vfArgs.input)) =>
       (vfPc' = "done" /\ vfRet' = Returned(FALSE, "SIG_PUSHONLY"))
  /\ (AtP2SH /\ IsPushOnly(vfArgs.input)) => vfPc' = "redeem"
  /\ (/\ vfPc = "redeem"
      /\ ex.ip = Len(ex.code)
      /\ ExecLeave(ex) = ""
      /\ (Len(ex.stack) = 0 \/ ~ScriptBool(Top(ex.stack, 1)))) =>
       (vfPc' = "done" /\ vfRet' = Returned(FALSE, "EVAL_FALSE"))

\* C15 as stated: the snapshot is kept, the redeem script is the popped top
\* of the snapshot and runs on the rest of it after the output script left
\* a truthy top, a falsy or missing top after the redeem script fails
\* EVAL_FALSE, an input that is not push-only fails SIG_PUSHONLY, and a
\* P2SH spend whose snapshot is empty fails EVAL_FALSE.
C15_AsStated ==
  /\ [][SnapshotKept /\ RedeemEntered /\ P2SHSteps]_vars
  /\ []((/\ vfPc = "done"
          /\ "P2SH" \in vfArgs.flags
          /\ IsScripthash(vfArgs.output)
          /\ vfArgs.input.raw = <<>>
          /\ vfCopy = <<>>) => vfRet = Returned(FALSE, "EVAL_FALSE"))

\* C15: with VERIFY_P2SH and a P2SH output script, the snapshot is the stack
\* as the input script left it and is unaffected by the output script; the
\* redeem script is the popped top of the snapshot and runs on the rest of
\* it, only after the output script left a truthy top; a falsy or missing
\* top after the redeem script fails EVAL_FALSE and an input that is not
\* push-only fails SIG_PUSHONLY. An empty snapshot never reaches the P2SH
\* path: the output script fails INVALID_STACK_OPERATION at its OP_HASH160.
C15_RedeemOnSnapshot ==
  /\ [][SnapshotKept /\ RedeemEntered /\ P2SHSteps]_vars
  /\ [](AtP2SH => Len(vfCopy) > 0)
  /\ []((/\ vfPc = "done"
          /\ "P2SH" \in vfArgs.flags
          /\ IsScripthash(vfArgs.output)
          /\ vfArgs.input.raw = <<>>
          /\ vfCopy = <<>>) => vfRet = Returned(FALSE, "INVALID_STACK_OPERATION"))

\* a P2SH spend returned true: the input pushed a signature and the redeem
\* script, and the redeem script ran last, on the signature alone
C15_Witness ==
  /\ vfArgs.kind = "p2sh"
  /\ vfPc = "done"
  /\ vfRet = Returned(TRUE, "")
  /\ "P2SH" \in vfArgs.flags
  /\ Len(vfCopy) = 2
  /\ ex.code = RedeemOf.code
  /\ Len(ex.stack) = 2

\* verify has returned from a native spend of a version-0 witness program
\* that came to Script.verifyProgram: the input script is empty and the
\* output script leaves its program, which is not false, on top
NativeV0Done ==
  /\ vfPc = "done"
  /\ "WITNESS" \in vfArgs.flags
  /\ IsProgram(vfArgs.output)
  /\ ToProgram(vfArgs.output).version = 0
  /\ vfArgs.input.raw = <<>>
  /\ ScriptBool(ToProgram(vfArgs.output).data)

\* the witness items that verifyProgram leaves on the stack it executes on
RemainingItems(program, witness) ==
  IF Len(program.data) = 32 THEN Pop(witness) ELSE witness

\* the script verifyProgram executes
WitnessScriptOf(program, witness) ==
  IF Len(program.data) = 32 THEN ScriptFromRaw(Top(witness, 1))
  ELSE FromPubkeyhash(program.data)

\* C16: Script.verifyProgram on a version-0 program succeeds only if the
\* program is 32 bytes and the last witness item has it as its SHA-256, or
\* is 20 bytes and the witness has exactly two items; every remaining item
\* is at most 520 bytes; and the witness script, executed under sigversion
\* 1, leaves exactly one truthy element. Another program length fails
\* WITNESS_PROGRAM_WRONG_LENGTH, an empty witness for 32 bytes fails
\* WITNESS_PROGRAM_WITNESS_EMPTY, a hash or item-count mismatch fails
\* WITNESS_PROGRAM_MISMATCH.
C16_VerifyProgramV0 ==
  NativeV0Done =>
    LET program == ToProgram(vfArgs.output)
        witness == vfArgs.witness
        size == Len(program.data)
    IN
    /\ size \notin {20, 32} =>
         vfRet = Returned(FALSE, "WITNESS_PROGRAM_WRONG_LENGTH")
    /\ (size = 32 /\ Len(witness) = 0) =>
         vfRet = Returned(FALSE, "WITNESS_PROGRAM_WITNESS_EMPTY")
    /\ (size = 32 /\ Len(witness) > 0 /\ Sha256(Top(witness, 1)) # program.data) =>
         vfRet = Returned(FALSE, "WITNESS_PROGRAM_MISMATCH")
    /\ (size = 20 /\ Len(witness) # 2) =>
         vfRet = Returned(FALSE, "WITNESS_PROGRAM_MISMATCH")
    /\ vfRet.ok =>
         /\ \/ size = 32 /\ Len(witness) > 0 /\ Sha256(Top(witness, 1)) = program.data
            \/ size = 20 /\ Len(witness) = 2
         /\ \A j \in 1..Len(RemainingItems(program, witness)) :
              Len(RemainingItems(program, witness)[j]) <= MAX_PUSH
         /\ ex.version = 1
         /\ ex.code = WitnessScriptOf(program, witness).code
         /\ ex.ip = Len(ex.code)
         /\ Len(ex.stack) = 1
         /\ ScriptBool(Top(ex.stack, 1))

\* a P2WPKH spend returned true: the witness is a signature valid for the
\* key and the key, and the pay-to-pubkeyhash script ran under sigversion 1
C16_Witness ==
  /\ vfArgs.kind = "p2wpkh"
  /\ NativeV0Done
  /\ vfRet = Returned(TRUE, "")
  /\ vfArgs.witness = <<SigA, Key(1)>>
  /\ ex.version = 1
  /\ ex.code = FromPubkeyhash(Hash160(Key(1))).code
  /\ ex.stack = <<STACK_TRUE>>

(***************************************************************************)
(* Block sizes and rewards (block.js 152-199, 495-560).  The Numbers of    *)
(* the code go beyond 2^31: an integer is held as hi * WideBase + lo with  *)
(* 0 <= lo < WideBase, hi being negative for a negative integer.           *)
(***************************************************************************)

WideBase == 10000 * 10000

Wide(hi, lo) == [hi |-> hi, lo |-> lo]

\* the integer n
WInt(n) == Wide(n \div WideBase, n % WideBase)

WAdd(a, b) ==
  LET lo == a.lo + b.lo IN Wide(a.hi + b.hi + lo \div WideBase, lo % WideBase)

WSub(a, b) ==
  LET lo == a.lo - b.lo IN Wide(a.hi - b.hi + lo \div WideBase, lo % WideBase)

\* a * k for a small k >= 0
WScale(a, k) ==
  LET lo == a.lo * k IN Wide(a.hi * k + lo \div WideBase, lo % WideBase)

WLess(a, b) == a.hi < b.hi \/ (a.hi = b.hi /\ a.lo < b.lo)

WLeq(a, b) == a = b \/ WLess(a, b)

\* floor(a / 2) for a >= 0
WHalf(a) ==
  LET lo == (a.hi % 2) * WideBase + a.lo IN Wide(a.hi \div 2, lo \div 2)

\* 2^31 and 2^32
Two31 == Wide(21, 47483648)
Two32 == Wide(42, 94967296)

\* x | 0 for an integer x >= 0: ToInt32
RECURSIVE ToInt32(_)
ToInt32(a) ==
  IF ~WLess(a, Two32) THEN ToInt32(WSub(a, Two32))
  ELSE IF ~WLess(a, Two31) THEN WSub(a, Two32)
  ELSE a

\* x >>> n for 0 <= x < 2^32: the shift count is taken modulo 32
RECURSIVE HalfTimes(_, _)
HalfTimes(a, k) == IF k <= 0 THEN a ELSE HalfTimes(WHalf(a), k - 1)

UShr(a, n) == HalfTimes(a, n % 32)

\* Block.prototype.getSizes: the sizes cached or counted by the serializer
GetSizes(b) == [size |-> b.size, witnessSize |-> b.witnessSize]

\* Block.prototype.getWeight
GetWeight(b) ==
  LET sizes == GetSizes(b)
      base == sizes.size - sizes.witnessSize
  IN WAdd(WScale(WInt(base), WITNESS_SCALE_FACTOR - 1), WInt(sizes.size))

\* a virtual size that rounds down
GetVirtualSizeFloor(b) ==
  ToInt32(HalfTimes(GetWeight(b), 2))

\* Block.prototype.getVirtualSize: (weight + scale - 1) / scale | 0 with
\* scale = 4
GetVirtualSize(b) ==
  ToInt32(HalfTimes(WAdd(GetWeight(b), WInt(WITNESS_SCALE_FACTOR - 1)), 2))

\* constants.MAX_MONEY: 21000000 * 1e8
MAX_MONEY == Wide(21000000, 0)

\* what a method returns or throws
MathReturns(value) == [threw |-> FALSE, value |-> value]
MathThrows == [threw |-> TRUE, value |-> WInt(0)]

\* a subsidy that shifts without the test of 33 halvings
RewardUnguarded(height, interval) ==
  LET halvings == height \div interval IN
  IF height < 0 THEN MathThrows
  ELSE IF halvings = 0 THEN MathReturns(Wide(50, 0))
  ELSE MathReturns(UShr(Wide(25, 0), halvings - 1))

\* Block.reward(height, network), interval being network.halvingInterval
Reward(height, interval) ==
  LET halvings == height \div interval IN
  IF height < 0 THEN MathThrows
  ELSE IF halvings >= 33 THEN MathReturns(WInt(0))
  ELSE IF halvings = 0 THEN MathReturns(Wide(50, 0))
  ELSE MathReturns(UShr(Wide(25, 0), halvings - 1))

\* a loop over the fees that tests only the sum
RECURSIVE RewardLoopSumOnly(_, _, _)
RewardLoopSumOnly(fees, i, reward) ==
  IF i > Len(fees) THEN reward
  ELSE LET sum == WAdd(reward, fees[i]) IN
       IF WLess(sum, WInt(0)) \/ WLess(MAX_MONEY, sum) THEN WInt(-1)
       ELSE RewardLoopSumOnly(fees, i + 1, sum)

\* the loop of getReward over the fees of txs[1..], from the i-th of them
\* with the reward so far
RECURSIVE RewardLoop(_, _, _)
RewardLoop(fees, i, reward) ==
  IF i > Len(fees) THEN reward
  ELSE LET fee == fees[i]
           sum == WAdd(reward, fee)
       IN
       IF WLess(fee, WInt(0)) \/ WLess(MAX_MONEY, fee) THEN WInt(-1)
       ELSE IF WLess(sum, WInt(0)) \/ WLess(MAX_MONEY, sum) THEN WInt(-1)
       ELSE RewardLoop(fees, i + 1, sum)

\* Block.prototype.getReward
GetReward(b) ==
  LET subsidy == Reward(b.height, b.interval) IN
  IF subsidy.threw THEN MathThrows
  ELSE MathReturns(RewardLoop(b.fees, 1, subsidy.value))

\* the blocks the methods are called on
SizeSpread == 3
MaxHalvings == 34
MaxFees == 3

SizeMenu ==
  {c + d : c \in {0, 80, 1000000, 4000000}, d \in 0..SizeSpread}
    \cup {INT32_MAX - d : d \in 0..SizeSpread}

\* network.halvingInterval: main and regtest
HalvingIntervals == {210000, 150}

HeightMenu(interval) ==
  {k * interval + d : k \in 0..MaxHalvings, d \in {0, 1, interval - 1}}
    \cup {-1, INT32_MAX}

FeeMenu ==
  {WInt(-1), WInt(0), WInt(1), MAX_MONEY, WAdd(MAX_MONEY, WInt(1)),
   WSub(MAX_MONEY, Wide(50, 0)), WAdd(WSub(MAX_MONEY, Wide(50, 0)), WInt(1))}

MathBlock(size, witnessSize, height, interval, fees) ==
  [size |-> size, witnessSize |-> witnessSize, height |-> height,
   interval |-> interval, fees |-> fees]

MathInit ==
  /\ mtPc = "ready"
  /\ mtOut = <<>>
  /\ \/ \E size \in SizeMenu : \E witnessSize \in SizeMenu :
          /\ witnessSize <= size
          /\ mtIn = MathBlock(size, witnessSize, 0, 210000, <<>>)
     \/ \E interval \in HalvingIntervals : \E height \in HeightMenu(interval) :
          mtIn = MathBlock(80, 0, height, interval, <<>>)
     \/ \E height \in {-1, 0, 210000, 33 * 210000} : \E n \in 0..MaxFees :
          \E fees \in [1..n -> FeeMenu] :
            mtIn = MathBlock(80, 0, height, 210000, fees)
  /\ MathOthersIdle

MathDone(op, ret) ==
  /\ mtPc = "ready"
  /\ mtPc' = "done"
  /\ mtOut' = [op |-> op, threw |-> ret.threw, value |-> ret.value]
  /\ UNCHANGED mtIn
  /\ UNCHANGED notMath

MathGetWeight == MathDone("getWeight", MathReturns(GetWeight(mtIn)))

MathGetVirtualSize ==
  MathDone("getVirtualSize", MathReturns(GetVirtualSize(mtIn)))

MathReward == MathDone("reward", Reward(mtIn.height, mtIn.interval))

MathGetReward == MathDone("getReward", GetReward(mtIn))

MathNext ==
  \/ MathGetWeight
  \/ MathGetVirtualSize
  \/ MathReward
  \/ MathGetReward

SpecMath == MathInit /\ [][MathNext]_vars

MathReturned(op) == mtPc = "done" /\ mtOut.op = op /\ ~mtOut.threw

\* C17: getWeight() is 3 * base + total, that is 4 * total - 3 * witness,
\* and getVirtualSize() is the least v with 4 * v >= weight, for sizes
\* within the signed 32-bit range
C17_WeightLaw ==
  LET weight == WSub(WScale(WInt(mtIn.size), 4), WScale(WInt(mtIn.witnessSize), 3))
  IN
  /\ MathReturned("getWeight") => mtOut.value = weight
  /\ MathReturned("getVirtualSize") =>
       /\ WLeq(weight, WScale(mtOut.value, 4))
       /\ WLess(WScale(WSub(mtOut.value, WInt(1)), 4), weight)

\* a virtual size that was rounded up, of a block of the greatest size
C17_Witness ==
  /\ MathReturned("getVirtualSize")
  /\ mtIn.size = INT32_MAX
  /\ mtIn.witnessSize = 1
  /\ mtOut.value = WInt(INT32_MAX)

\* a * 2^k
RECURSIVE DoubleTimes(_, _)
DoubleTimes(a, k) ==
  IF k <= 0 THEN a
  ELSE IF k >= 4 THEN DoubleTimes(WScale(a, 16), k - 4)
  ELSE DoubleTimes(WScale(a, 2), k - 1)

\* v = floor(5000000000 / 2^h)
IsSubsidy(v, h) ==
  /\ WLeq(DoubleTimes(v, h), Wide(50, 0))
  /\ WLess(Wide(50, 0), DoubleTimes(WAdd(v, WInt(1)), h))

\* C18: for a height >= 0, Block.reward is floor(5000000000 / 2^h) with
\* h = floor(height / halvingInterval) when h < 33 and 0 when h >= 33; it
\* is never negative and no greater than the reward of a lower height
C18_Subsidy ==
  (mtPc = "done" /\ mtOut.op = "reward" /\ mtIn.height >= 0) =>
    LET h == mtIn.height \div mtIn.interval IN
    /\ ~mtOut.threw
    /\ h < 33 => IsSubsidy(mtOut.value, h)
    /\ h >= 33 => mtOut.value = WInt(0)
    /\ WLeq(WInt(0), mtOut.value)
    /\ \A lower \in HeightMenu(mtIn.interval) :
         (0 <= lower /\ lower <= mtIn.height) =>
           WLeq(mtOut.value, Reward(lower, mtIn.interval).value)

\* the reward of the first height of the 33rd halving, where the shift
\* count would be 32
C18_Witness ==
  /\ MathReturned("reward")
  /\ mtIn.height = 33 * 210000
  /\ mtOut.value = WInt(0)

\* the subsidy plus the first k fees
RECURSIVE PartialSum(_, _, _)
PartialSum(subsidy, fees, k) ==
  IF k = 0 THEN subsidy ELSE WAdd(PartialSum(subsidy, fees, k - 1), fees[k])

InMoneyRange(x) == WLeq(WInt(0), x) /\ WLeq(x, MAX_MONEY)

\* C19: getReward is the subsidy plus the fees of txs 1..n-1 when every
\* fee and every partial sum lies in [0, MAX_MONEY], and -1 otherwise; a
\* reward >= 0 it returns after adding a fee is at most MAX_MONEY
C19_GetReward ==
  MathReturned("getReward") =>
    LET fees == mtIn.fees
        subsidy == Reward(mtIn.height, mtIn.interval).value
        allInRange ==
          \A k \in 1..Len(fees) :
            InMoneyRange(fees[k]) /\ InMoneyRange(PartialSum(subsidy, fees, k))
    IN
    /\ allInRange => mtOut.value = PartialSum(subsidy, fees, Len(fees))
    /\ ~allInRange => mtOut.value = WInt(-1)
    /\ (Len(fees) >= 1 /\ WLeq(WInt(0), mtOut.value)) =>
         WLeq(mtOut.value, MAX_MONEY)

\* two fees within the range whose sum with the subsidy is MAX_MONEY + 1
C19_Witness ==
  /\ MathReturned("getReward")
  /\ mtIn.height = 0
  /\ mtIn.fees = <<WSub(MAX_MONEY, Wide(50, 0)), WInt(1)>>
  /\ mtOut.value = WInt(-1)

\* the (script, value) pairs read from a 0-based offset to the end of raw
RECURSIVE ReadOutputs(_, _)
ReadOutputs(raw, off) ==
  IF off >= Len(raw) THEN <<>>
  ELSE LET sc == DecompressScript(raw, off)
           v == ReadVarint(raw, off + sc.size)
       IN <<[script |-> sc.script, value |-> v.value]>>
            \o ReadOutputs(raw, off + sc.size + v.size)

\* the (script, value) pairs of the unspent outputs by increasing index
UnspentPairs(coins) ==
  LET unspent == SelectSeq(coins.outputs, LAMBDA e : e.kind # "null") IN
  [k \in 1..Len(unspent) |->
     [script |-> unspent[k].coin.script, value |-> unspent[k].coin.value]]

\* bit (7 - i mod 8) of byte floor(i / 8) of the field at a 0-based offset
FieldBit(raw, off, i) ==
  (ByteAt(raw, off + (i \div 8)) \div Pow2(7 - (i % 8))) % 2

\* C20: for a Coins of size S > 0, toRaw writes the varint version, the
\* uint32 (height << 1) | coinbase with 0x7FFFFFFF for the height -1, the
\* varint flen = ceil(S / 8), flen bytes whose bit (7 - i mod 8) of byte
\* floor(i / 8) is 1 exactly for the spent i < S, then the compressed
\* unspent outputs by increasing index; for S = 0 it writes nothing
C20_ToRawLayout ==
  cnPc # "built" =>
    LET S == CoinsSize(cnSrc)
        raw == cnBuf.raw
        version == ReadVarint(raw, 0)
        flen == ReadVarint(raw, version.size + 4)
        field == version.size + 4 + flen.size
    IN
    /\ S = 0 => (~cnBuf.set /\ raw = <<>>)
    /\ S > 0 =>
         /\ cnBuf.set
         /\ version.value = cnSrc.version
         /\ ReadHeight(raw, version.size) =
              (IF cnSrc.height = -1 THEN INT32_MAX ELSE cnSrc.height)
         /\ ReadCoinbase(raw, version.size) = cnSrc.coinbase
         /\ 8 * (flen.value - 1) < S /\ S <= 8 * flen.value
         /\ \A i \in 0..(8 * flen.value - 1) :
              FieldBit(raw, field, i) = 1 <=> (i < S /\ ~SrcUnspent(i))
         /\ ReadOutputs(raw, field + flen.value) = UnspentPairs(cnSrc)

\* an unconfirmed coinbase with outputs 1 and 8 unspent and a spent output
\* after them: a field of two bytes, seven of its bits padding
C20_Witness ==
  /\ cnPc = "serialized"
  /\ cnSrc.height = -1 /\ cnSrc.coinbase
  /\ Len(cnSrc.outputs) = 10
  /\ CoinsSize(cnSrc) = 9
  /\ SrcUnspent(1) /\ SrcUnspent(8) /\ CoinsCount(cnSrc) = 2
  /\ SubSeq(cnBuf.raw, 1, 8) = <<1, 255, 255, 255, 255, 2, 191, 0>>

\* the outputs fromRaw loads from a buffer toRaw returned
LoadedFrom(buf) == CoinsFromRaw(buf.raw, cnSrc.hash, NoIndex).coins.outputs

\* the bytes of output i in the buffer it was loaded from
SliceOf(outputs, i) ==
  ReadBytes(outputs[i + 1].raw, outputs[i + 1].offset, outputs[i + 1].size)

\* C21: a Coins loaded from a buffer b of toRaw serializes to b again when
\* nothing was spent; after any gets and spends every output still unspent
\* is the deferred entry that was loaded and is written with the bytes it
\* had in b, the version, height and coinbase flag are written as in b, and
\* the spent field marks exactly the outputs now spent
C21_Reserialize ==
  /\ cnPc \in {"loaded", "queried", "modified", "reserialized"} =>
       LET loaded == LoadedFrom(cnBuf) IN
       /\ cn.version = cnSrc.version /\ cn.height = cnSrc.height
       /\ cn.coinbase = cnSrc.coinbase /\ cn.hash = cnSrc.hash
       /\ Len(cn.outputs) = Len(loaded)
       /\ \A i \in 0..(MaxIndex + 2) :
            CoinsHas(cn, i) => cn.outputs[i + 1] = loaded[i + 1]
  /\ cnPc = "reserialized" =>
       LET loaded == LoadedFrom(cnBuf)
           again == LoadedFrom(cnBuf2)
           header == ReadVarint(cnBuf.raw, 0).size + 4
       IN
       /\ cn.outputs = loaded => cnBuf2 = cnBuf
       /\ CoinsSize(cn) = 0 => ~cnBuf2.set
       /\ CoinsSize(cn) > 0 =>
            /\ cnBuf2.set
            /\ SubSeq(cnBuf2.raw, 1, header) = SubSeq(cnBuf.raw, 1, header)
            /\ \A i \in 0..(MaxIndex + 2) :
                 /\ CoinsHas([outputs |-> again], i) <=> CoinsHas(cn, i)
                 /\ CoinsHas(cn, i) => SliceOf(again, i) = SliceOf(loaded, i)

\* of two outputs loaded one was spent, and toRaw wrote a buffer that
\* differs from the one loaded and holds the other output, still deferred
C21_Witness ==
  /\ cnPc = "reserialized"
  /\ cnRet.op = "toRaw" /\ cnRet.found
  /\ CoinsCount(cnSrc) = 2 /\ CoinsCount(cn) = 1
  /\ cnBuf2.set /\ cnBuf2 # cnBuf
  /\ \E i \in 0..(MaxIndex + 2) :
       CoinsHas(cn, i) /\ cn.outputs[i + 1].kind = "compressed"

(***************************************************************************)
(* The caches of a Block (block.js 36-46, 126-178, 226-250, 357-382,       *)
(* 468-488, 676-705).  A transaction is what the getters ask of it; the    *)
(* serialization of a block is the header version and the transactions it  *)
(* was framed from.                                                        *)
(***************************************************************************)

MaxCacheTxs == 3

CacheTx(id, size, witnessSize, hasInputs, cbHeight, commitment) ==
  [id |-> id, size |-> size, witnessSize |-> witnessSize,
   hasInputs |-> hasInputs, cbHeight |-> cbHeight, commitment |-> commitment]

\* a coinbase of height 5, a coinbase of height 7 with a witness and a
\* commitment output, and a transaction without inputs
CacheTxMenu ==
  { CacheTx(1, 100, 0, TRUE, 5, ""),
    CacheTx(2, 150, 34, TRUE, 7, "aa"),
    CacheTx(3, 10, 0, FALSE, -1, "") }

\* the bytes frameWitness renders: none (null) or the block they encode
NoRaw == [set |-> FALSE, version |-> 0, txs |-> <<>>]
RawOf(version, txs) == [set |-> TRUE, version |-> version, txs |-> txs]

RECURSIVE SumField(_, _, _)
SumField(txs, field, i) ==
  IF i > Len(txs) THEN 0 ELSE txs[i][field] + SumField(txs, field, i + 1)

\* raw.length: the header, the varint count and the transactions
RawLength(raw) == HEADER_SIZE + 1 + SumField(raw.txs, "size", 1)

\* _cbHeight: null or a height
NullHeight == [set |-> FALSE, value |-> 0]
HeightOf(h) == [set |-> TRUE, value |-> h]

\* new Block(): the fields the constructor sets
NewBlock(mutable, version) ==
  [mutable |-> mutable, version |-> version, txs |-> <<>>,
   cbHeight |-> NullHeight, commitmentHash |-> "",
   raw |-> NoRaw, size |-> -1, witnessSize |-> -1, lastWitnessSize |-> 0]

SizesOf(size, witnessSize) == [size |-> size, witnessSize |-> witnessSize]

\* what a getter returns: bytes, sizes, a boolean, a height or a hash
NoValue ==
  [raw |-> NoRaw, sizes |-> SizesOf(0, 0), flag |-> FALSE, height |-> 0,
   hash |-> "", weight |-> 0]
RawValue(raw) == [NoValue EXCEPT !.raw = raw]
SizesValue(size, witnessSize) == [NoValue EXCEPT !.sizes = SizesOf(size, witnessSize)]
FlagValue(flag) == [NoValue EXCEPT !.flag = flag]
HeightValue(height) == [NoValue EXCEPT !.height = height]
HashValue(hash) == [NoValue EXCEPT !.hash = hash]
WeightValue(weight) == [NoValue EXCEPT !.weight = weight]

\* what a getter does: the block after the call and what it returned
CacheResult(block, value) == [block |-> block, threw |-> FALSE, value |-> value]
CacheThrows(block) == [block |-> block, threw |-> TRUE, value |-> NoValue]

\* Block.prototype.frame(true): the bytes, and _lastWitnessSize set
FrameWitness(block) ==
  CacheResult([block EXCEPT !.lastWitnessSize = SumField(block.txs, "witnessSize", 1)],
              RawValue(RawOf(block.version, block.txs)))

\* a getRaw that caches the bytes of an immutable block and not their length
GetRawSizeUnset(block) ==
  IF block.raw.set THEN
    IF ~(block.size > 0) \/ ~(block.witnessSize >= 0) THEN CacheThrows(block)
    ELSE CacheResult([block EXCEPT !.lastWitnessSize = block.witnessSize],
                     RawValue(block.raw))
  ELSE
    LET framed == FrameWitness(block) IN
    IF ~block.mutable
      THEN CacheResult([framed.block EXCEPT
                          !.witnessSize = framed.block.lastWitnessSize,
                          !.raw = framed.value.raw],
                       framed.value)
      ELSE framed

\* Block.prototype.getRaw
GetRaw(block) ==
  IF block.raw.set THEN
    IF ~(block.size > 0) \/ ~(block.witnessSize >= 0) THEN CacheThrows(block)
    ELSE CacheResult([block EXCEPT !.lastWitnessSize = block.witnessSize],
                     RawValue(block.raw))
  ELSE
    LET framed == FrameWitness(block) IN
    IF ~block.mutable
      THEN CacheResult([framed.block EXCEPT
                          !.size = RawLength(framed.value.raw),
                          !.witnessSize = framed.block.lastWitnessSize,
                          !.raw = framed.value.raw],
                       framed.value)
      ELSE framed

\* Block.prototype.getSizes
CacheGetSizes(block) ==
  IF block.size # -1
    THEN CacheResult(block, SizesValue(block.size, block.witnessSize))
  ELSE IF ~block.mutable THEN
    IF block.raw.set THEN CacheThrows(block)
    ELSE LET got == GetRaw(block) IN
         IF got.threw THEN got
         ELSE CacheResult(got.block,
                          SizesValue(got.block.size, got.block.witnessSize))
  ELSE
    \* this.toRaw(writer): getRaw() and the bytes written
    LET got == GetRaw(block) IN
    IF got.threw THEN got
    ELSE CacheResult(got.block,
                     SizesValue(RawLength(got.value.raw),
                                got.block.lastWitnessSize))

\* base * (WITNESS_SCALE_FACTOR - 1) + size
WeightOf(size, witnessSize) ==
  (size - witnessSize) * (WITNESS_SCALE_FACTOR - 1) + size

\* Block.prototype.getWeight
CacheGetWeight(block) ==
  LET got == CacheGetSizes(block) IN
  IF got.threw THEN got
  ELSE CacheResult(got.block,
                   WeightValue(WeightOf(got.value.sizes.size,
                                        got.value.sizes.witnessSize)))

\* Block.prototype.hasWitness
HasWitness(block) ==
  IF block.witnessSize # -1 THEN CacheResult(block, FlagValue(block.witnessSize # 0))
  ELSE CacheResult(block,
         FlagValue(\E i \in 1..Len(block.txs) : block.txs[i].witnessSize > 0))

\* Block.prototype.getCoinbaseHeight
BlockGetCoinbaseHeight(block) ==
  IF block.version < 2 THEN CacheResult(block, HeightValue(-1))
  ELSE IF block.cbHeight.set
    THEN CacheResult(block, HeightValue(block.cbHeight.value))
  ELSE IF Len(block.txs) = 0 \/ ~block.txs[1].hasInputs
    THEN CacheResult(block, HeightValue(-1))
  ELSE LET height == block.txs[1].cbHeight IN
       CacheResult(IF ~block.mutable
                     THEN [block EXCEPT !.cbHeight = HeightOf(height)]
                     ELSE block,
                   HeightValue(height))

\* the commitmentHash getter; "" is undefined
CommitmentHash(block) ==
  IF block.commitmentHash # ""
    THEN CacheResult(block, HashValue(block.commitmentHash))
  ELSE IF Len(block.txs) = 0 THEN CacheResult(block, HashValue(""))
  ELSE LET commitmentHash == block.txs[1].commitment IN
       CacheResult(IF commitmentHash # "" /\ ~block.mutable
                     THEN [block EXCEPT !.commitmentHash = commitmentHash]
                     ELSE block,
                   HashValue(commitmentHash))

\* Block.prototype.addTX
AddTX(block, tx) == [block EXCEPT !.txs = Append(block.txs, tx)]

RECURSIVE AddAll(_, _, _)
AddAll(block, txs, i) ==
  IF i > Len(txs) THEN block ELSE AddAll(AddTX(block, txs[i]), txs, i + 1)

\* Block.prototype.fromRaw(data)
BlockFromRaw(block, data) ==
  LET read == AddAll([block EXCEPT !.version = data.version], data.txs, 1) IN
  IF ~block.mutable
    THEN [read EXCEPT !.raw = data, !.size = RawLength(data),
                      !.witnessSize = SumField(data.txs, "witnessSize", 1)]
    ELSE read

NoCacheRet == [op |-> "none", threw |-> FALSE, value |-> NoValue]

CacheInit ==
  /\ ckPc = "ready"
  /\ \E mutable \in BOOLEAN, version \in {1, 2} : ck = NewBlock(mutable, version)
  /\ ckRet = NoCacheRet
  /\ CacheOthersIdle

\* block.fromRaw(data)
CacheFromRaw ==
  /\ \E version \in {1, 2}, n \in 1..MaxCacheTxs :
       \E txs \in [1..n -> CacheTxMenu] :
         /\ Len(ck.txs) + n <= MaxCacheTxs
         /\ ck' = BlockFromRaw(ck, RawOf(version, txs))
  /\ ckPc' = "ready"
  /\ UNCHANGED ckRet
  /\ UNCHANGED notCache

\* block.addTX(tx)
CacheAddTX ==
  /\ Len(ck.txs) < MaxCacheTxs
  /\ \E tx \in CacheTxMenu : ck' = AddTX(ck, tx)
  /\ ckPc' = "ready"
  /\ UNCHANGED ckRet
  /\ UNCHANGED notCache

\* block.mutable = true
CacheSetMutable ==
  /\ ~ck.mutable
  /\ ck' = [ck EXCEPT !.mutable = TRUE]
  /\ ckPc' = "ready"
  /\ UNCHANGED ckRet
  /\ UNCHANGED notCache

CacheReturn(op, r) ==
  /\ ck' = r.block
  /\ ckRet' = [op |-> op, threw |-> r.threw, value |-> r.value]
  /\ ckPc' = "returned"
  /\ UNCHANGED notCache

CacheGetRawCall == CacheReturn("getRaw", GetRaw(ck))
CacheGetSizesCall == CacheReturn("getSizes", CacheGetSizes(ck))
CacheGetWeightCall == CacheReturn("getWeight", CacheGetWeight(ck))
CacheHasWitnessCall == CacheReturn("hasWitness", HasWitness(ck))
CacheGetCoinbaseHeightCall ==
  CacheReturn("getCoinbaseHeight", BlockGetCoinbaseHeight(ck))
CacheCommitmentHashCall == CacheReturn("commitmentHash", CommitmentHash(ck))

CacheNext ==
  \/ CacheFromRaw
  \/ CacheAddTX
  \/ CacheSetMutable
  \/ CacheGetRawCall
  \/ CacheGetSizesCall
  \/ CacheGetWeightCall
  \/ CacheHasWitnessCall
  \/ CacheGetCoinbaseHeightCall
  \/ CacheCommitmentHashCall

SpecCache == CacheInit /\ [][CacheNext]_vars

\* what a getter computes from the transaction vector the block has now
FreshValue(op, block) ==
  CASE op = "getRaw" -> RawValue(RawOf(block.version, block.txs))
    [] op = "getSizes" ->
         SizesValue(RawLength(RawOf(block.version, block.txs)),
                    SumField(block.txs, "witnessSize", 1))
    [] op = "getWeight" ->
         WeightValue(WeightOf(RawLength(RawOf(block.version, block.txs)),
                              SumField(block.txs, "witnessSize", 1)))
    [] op = "hasWitness" ->
         FlagValue(\E i \in 1..Len(block.txs) : block.txs[i].witnessSize > 0)
    [] op = "getCoinbaseHeight" ->
         HeightValue(IF \/ block.version < 2
                        \/ Len(block.txs) = 0
                        \/ ~block.txs[1].hasInputs
                       THEN -1 ELSE block.txs[1].cbHeight)
    [] op = "commitmentHash" ->
         HashValue(IF Len(block.txs) = 0 THEN "" ELSE block.txs[1].commitment)

\* C22: whenever a getter returns on a mutable block, what it returns is
\* computed from the current transaction vector, whatever the block cached
\* while it was immutable
C22_MutableNeverStale ==
  (ckPc = "returned" /\ ck.mutable) =>
    /\ ~ckRet.threw
    /\ ckRet.value = FreshValue(ckRet.op, ck)

(***************************************************************************)
(* Script helpers called on one script or one push (script.js 1521-1550,   *)
(* 2435-2480)                                                              *)
(***************************************************************************)

\* Opcode.fromData: the opcode that pushes data in the shortest way
FromData(data) ==
  IF Len(data) = 0 THEN PlainOp(OP_0)
  ELSE IF Len(data) = 1 /\ data[1] >= 1 /\ data[1] <= 16
    THEN PlainOp(data[1] + 80)
  ELSE IF Len(data) = 1 /\ data[1] = 129 THEN PlainOp(OP_1NEGATE)
  ELSE FromPush(data)

\* Opcode.fromNumber
FromNumber(num) == FromData(ScriptArray(num))

\* the number -1 that stands for no height
NoHeight == BNFromInt(-1)

\* Script.getCoinbaseHeight(raw): the height as the BN it was read as, its
\* toNumber() being exact up to 6 bytes
GetCoinbaseHeight(raw) ==
  IF Len(raw) = 0 THEN NoHeight
  ELSE IF GetSmall(raw[1]) # -1 THEN BNFromInt(GetSmall(raw[1]))
  ELSE IF raw[1] > 6 THEN NoHeight
  ELSE IF Len(raw) < 1 + raw[1] THEN NoHeight
  ELSE
    LET data == SubSeq(raw, 2, 1 + raw[1])
        height == ScriptNum(data, {"MINIMALDATA"}, 6)
        op == FromNumber(height.val)
    IN
    IF ~height.ok THEN NoHeight
    ELSE IF ~op.push THEN NoHeight
    ELSE IF data # op.data THEN NoHeight
    ELSE height.val

\* the arguments of a call and what it returned
FnCall(fn, raw, opcode, flags, stack, data, index) ==
  [fn |-> fn, raw |-> raw, opcode |-> opcode, flags |-> flags,
   stack |-> stack, data |-> data, index |-> index]
FnArgs(fn, raw, opcode, flags) == FnCall(fn, raw, opcode, flags, <<>>, <<>>, 0)
FnReturn(op, ok, num, pos, err) ==
  [op |-> op, ok |-> ok, num |-> num, pos |-> pos, err |-> err]
FnResult(op, ok, num) == FnReturn(op, ok, num, BNZero, "")

\* the bytes of the scripts and pushes
FnBytes == {0, 1, 16, 17, 127, 128, 129, 255}

\* the longest payload whose bytes are all drawn from FnBytes
MaxFullBytes == 3

\* the longest payload
MaxPayload == 7

\* payloads: every string of FnBytes up to MaxFullBytes bytes, and longer
\* ones with a first byte, zeros, and two last bytes of FnBytes
FnPayload(n, b1, b2, b3) ==
  [i \in 1..n |-> IF i = 1 THEN b1
                  ELSE IF i = n - 1 THEN b2
                  ELSE IF i = n THEN b3
                  ELSE 0]

\* the first bytes of the scripts: small integers, push lengths, and others
HeightFirstBytes ==
  {OP_0, OP_1, OP_16, OP_1NEGATE, OP_PUSHDATA1, OP_NOP, 255} \cup 1..(MaxPayload + 1)

HeightInit ==
  \/ fnIn = FnArgs("getCoinbaseHeight", <<>>, 0, {})
  \/ \E first \in HeightFirstBytes, n \in 0..MaxPayload :
       \E b1 \in FnBytes, b2 \in FnBytes, b3 \in FnBytes :
         /\ n < 3 => b1 = 0
         /\ n < 2 => b2 = 0
         /\ n < 1 => b3 = 0
         /\ fnIn = FnArgs("getCoinbaseHeight",
                          <<first>> \o FnPayload(n, b1, b2, b3), 0, {})

(***************************************************************************)
(* Script.verifyMast (script.js 3530-3652)                                 *)
(***************************************************************************)

\* crypto.hash256
Hash256(data) == Digest(OP_HASH256, data, 32)

\* buf[i] of a JavaScript index i used in a shift: undefined counts as 0
IndexedByte(buf, i) == ByteAt(buf, i)

\* the unsigned 32-bit number whose bytes are lanes, lowest first:
\* the bitwise or of lanes[k] << 8 * (k - 1), made positive
FromLanes(lanes) == [neg |-> FALSE, mag |-> StripZeros(lanes)]

\* writeU32(number) of an unsigned number up to 2^32 - 1
WriteU32Wide(number) == [k \in 1..4 |-> ByteAt(number.mag, k - 1)]

\* the loop  version |= metadata[i] << 8 * (j - 1)  for j from 1 (3559-3560)
MastVersion(metadata, i) ==
  FromLanes([j \in 1..(Len(metadata) - 1) |-> IndexedByte(metadata, i)])

\* the loop  pos |= posdata[i] << 8 * j  for j from 0 (3600-3601)
MastPos(posdata, i) ==
  FromLanes([j \in 1..Len(posdata) |-> IndexedByte(posdata, i)])

\* bit k of an unsigned 32-bit number
BitOf(number, k) == (ByteAt(number.mag, k \div 8) \div Pow2(k % 8)) % 2

\* pos >= ((1 << depth) >>> 0), for depth < 32
AtLeastPow2(number, depth) == \E k \in depth..31 : BitOf(number, k) = 1

\* crypto.checkMerkleBranch(hash, branch, index), from element j of the
\* branch
RECURSIVE CheckMerkleBranch(_, _, _, _)
CheckMerkleBranch(hash, branch, index, j) ==
  IF j > Len(branch) THEN hash
  ELSE CheckMerkleBranch(
         IF BitOf(index, j - 1) = 1 THEN Hash256(branch[j] \o hash)
                                    ELSE Hash256(hash \o branch[j]),
         branch, index, j + 1)

\* the bytes written by the loop over the subscripts from j on (3615-3623):
\* the error it throws, the hashes for scriptRoot and the scripts
RECURSIVE MastScripts(_, _, _, _, _)
MastScripts(stack, subscripts, version, j, acc) ==
  IF j >= subscripts \/ acc.err # "" THEN acc
  ELSE LET script == Top(stack, 4 + j) IN
       IF version = BNZero /\ Len(acc.scripts) + Len(script) > MAX_SCRIPT_SIZE
         THEN [acc EXCEPT !.err = "SCRIPT_SIZE"]
         ELSE MastScripts(stack, subscripts, version, j + 1,
                [acc EXCEPT !.hashes = @ \o Hash256(script),
                            !.scripts = @ \o script])

\* the root a program commits to
MastRoot(version, subscripts, hashes, path, pos) ==
  Hash256(WriteU32Wide(version)
          \o CheckMerkleBranch(Hash256(<<subscripts>> \o hashes), path, pos, 1))

\* execute run to its end: the frame after the last opcode or after a throw
RECURSIVE ExecuteAll(_, _, _, _)
ExecuteAll(e, flags, tx, valid) ==
  IF e.err # "" \/ e.ip >= Len(e.code) THEN e
  ELSE ExecuteAll(ExecStepOp(e, flags, tx, valid), flags, tx, valid)

\* what verifyMast returns: the error thrown or "", with the version and the
\* position it had computed by then
MastReturn(err, version, pos) ==
  FnReturn("verifyMast", err = "", version, pos, err)

\* the end of verifyMast for version 0 (3634-3647)
MastExecute(stack, subscripts, scripts, flags, version, pos) ==
  LET rest == PopN(stack, 3 + subscripts)
      output == ScriptFromRaw(scripts)
      e == ExecuteAll(Frame(output, rest, 1), flags, TheTx, {})
  IN
  IF \E j \in 1..Len(rest) : Len(rest[j]) > MAX_PUSH
    THEN MastReturn("PUSH_SIZE", version, pos)
  ELSE IF ExecEnter(output) # "" THEN MastReturn(ExecEnter(output), version, pos)
  ELSE IF e.err # "" THEN MastReturn(e.err, version, pos)
  ELSE IF ExecLeave(e) # "" THEN MastReturn(ExecLeave(e), version, pos)
  ELSE IF Len(e.stack) # 0 THEN MastReturn("EVAL_FALSE", version, pos)
  ELSE MastReturn("", version, pos)

\* verifyMast from the position on (3592-3649)
MastFromPos(data, stack, outputRaw, flags, i, subscripts, version, path) ==
  LET posdata == Top(stack, 3)
      pos == IF Len(posdata) > 0 THEN MastPos(posdata, i) ELSE BNZero
      depth == Len(path)
      written == MastScripts(stack, subscripts, version, 0,
                   [err |-> "", hashes |-> <<>>, scripts |-> outputRaw])
  IN
  IF Len(posdata) > 4 THEN MastReturn("INVALID_MAST_STACK", version, BNZero)
  ELSE IF Len(posdata) > 0 /\ Last(posdata) = 0
    THEN MastReturn("INVALID_MAST_STACK", version, BNZero)
  ELSE IF depth < 32 /\ AtLeastPow2(pos, depth)
    THEN MastReturn("INVALID_MAST_STACK", version, pos)
  ELSE IF written.err # "" THEN MastReturn(written.err, version, pos)
  ELSE IF MastRoot(version, subscripts, written.hashes, path, pos) # data
    THEN MastReturn("WITNESS_PROGRAM_MISMATCH", version, pos)
  ELSE IF version = BNZero
    THEN MastExecute(stack, subscripts, written.scripts, flags, version, pos)
  ELSE MastReturn("", version, pos)

\* Script.verifyMast(program, stack, output, flags, tx, i), program being
\* version 1 with data, and output the script OP_1 <data>
VerifyMast(data, stack, flags, i) ==
  LET metadata == Top(stack, 1)
      subscripts == metadata[1]
      version == MastVersion(metadata, i)
      pathdata == Top(stack, 2)
      depth == Len(pathdata) \div 32
      path == [j \in 1..depth |-> SubSeq(pathdata, 32 * j - 31, 32 * j)]
      outputRaw == <<OP_1, Len(data)>> \o data
  IN
  IF Len(stack) < 4 THEN MastReturn("INVALID_MAST_STACK", BNZero, BNZero)
  ELSE IF Len(metadata) < 1 \/ Len(metadata) > 5
    THEN MastReturn("INVALID_MAST_STACK", BNZero, BNZero)
  ELSE IF subscripts = 0 \/ Len(stack) < subscripts + 3
    THEN MastReturn("INVALID_MAST_STACK", BNZero, BNZero)
  ELSE IF Last(metadata) = 0 THEN MastReturn("INVALID_MAST_STACK", BNZero, BNZero)
  ELSE IF version # BNZero /\ "DISCOURAGE_UPGRADABLE_WITNESS_PROGRAM" \in flags
    THEN MastReturn("DISCOURAGE_UPGRADABLE_WITNESS_PROGRAM", version, BNZero)
  ELSE IF Len(pathdata) % 32 # 0 THEN MastReturn("INVALID_MAST_STACK", version, BNZero)
  ELSE IF depth > 32 THEN MastReturn("INVALID_MAST_STACK", version, BNZero)
  ELSE IF version = BNZero /\ subscripts + depth > MAX_OPS
    THEN MastReturn("OP_COUNT", version, BNZero)
  ELSE MastFromPos(data, stack, outputRaw, flags, i, subscripts, version, path)

\* the most inputs of the transaction: the index i is below it
MaxInputs == 3

\* the metadata: one or two subscripts, then the bytes of the version
MastMetadata ==
  { <<n>> \o v : n \in {1, 2},
                 v \in {<<>>, <<1>>, <<0, 1>>, <<2, 0, 0, 128>>, <<0>>,
                        <<1, 1, 1, 1, 1>>} }

\* the bytes of the position
MastPosdata == {<<>>, <<1>>, <<2>>, <<0, 1>>, <<3, 0, 0, 128>>, <<0>>, <<1, 1, 1, 1, 1>>}

\* the paths: none, one of one hash, one of two, one of a wrong length
MastPathdata ==
  {<<>>, [k \in 1..32 |-> 7], [k \in 1..64 |-> IF k <= 32 THEN 7 ELSE 9], <<7>>}

\* the subscripts: one that drops what the output script pushed, one that
\* does nothing
MastSubscripts == {<<OP_2DROP>>, <<OP_NOP>>}

\* the version and the position as the little-endian integers of their bytes
LittleEndian(bytes) == FromLanes(bytes)

\* the hashes of the subscripts of a stack, the first subscript first
SubscriptHashes(stack, subscripts) ==
  MastScripts(stack, subscripts, BNZero, 0,
              [err |-> "", hashes |-> <<>>, scripts |-> <<>>]).hashes

\* the program data a stack is verified against: the root of the witness
\* with the version and the position read as little-endian integers or as
\* verifyMast reads them for input i, or another hash
MastData(stack, i) ==
  LET metadata == Top(stack, 1)
      posdata == Top(stack, 3)
      pathdata == Top(stack, 2)
      path == [j \in 1..(Len(pathdata) \div 32) |->
                 SubSeq(pathdata, 32 * j - 31, 32 * j)]
      hashes == SubscriptHashes(stack, metadata[1])
  IN
  { MastRoot(version, metadata[1], hashes, path, pos) :
      version \in {LittleEndian(Tail(metadata)), MastVersion(metadata, i)},
      pos \in {LittleEndian(posdata), MastPos(posdata, i)} }
    \cup {Hash256(<<>>)}

MastInit ==
  \/ \E i \in 0..(MaxInputs - 1), metadata \in MastMetadata,
        posdata \in MastPosdata, pathdata \in MastPathdata,
        rest \in {<<>>, <<<<1>>>>},
        flags \in {{"MAST"}, {"MAST", "DISCOURAGE_UPGRADABLE_WITNESS_PROGRAM"}} :
       \E scripts \in [1..metadata[1] -> MastSubscripts] :
         LET stack == rest \o scripts \o <<posdata, pathdata, metadata>> IN
         \E data \in MastData(stack, i) :
           fnIn = FnCall("verifyMast", <<>>, 0, flags, stack, data, i)
  \/ fnIn = FnCall("verifyMast", <<>>, 0, {"MAST"},
                   <<<<OP_NOP>>, <<>>, <<1>>>>, Hash256(<<>>), 0)

\* the lengths of the payloads given to isMinimal: each side of every limit
\* the function tests
MinimalLengths == {0, 1, 2, 75, 76, 255, 256, 65535, 65536}

\* the opcodes given to isMinimal
MinimalOpcodes ==
  {OP_0, 1, 2, MAX_DIRECT_PUSH, OP_PUSHDATA1, OP_PUSHDATA2, OP_PUSHDATA4,
   OP_1NEGATE, OP_1, OP_1 + 1, OP_16, OP_NOP}

MinimalInit ==
  \E len \in MinimalLengths, b \in FnBytes, opcode \in MinimalOpcodes,
     flags \in {{}, {"MINIMALDATA"}} :
    /\ len = 0 => b = 0
    /\ fnIn = FnArgs("isMinimal", [i \in 1..len |-> IF i = 1 THEN b ELSE 0],
                     opcode, flags)

NoFnResult == FnResult("none", FALSE, BNZero)

FnInit ==
  /\ fnPc = "ready"
  /\ fnOut = NoFnResult
  /\ HeightInit \/ MinimalInit \/ MastInit
  /\ FnOthersIdle

\* Script.getCoinbaseHeight(raw)
FnGetCoinbaseHeight ==
  /\ fnPc = "ready"
  /\ fnIn.fn = "getCoinbaseHeight"
  /\ fnOut' = FnResult("getCoinbaseHeight", TRUE, GetCoinbaseHeight(fnIn.raw))
  /\ fnPc' = "done"
  /\ UNCHANGED fnIn
  /\ UNCHANGED notFn

\* Script.isMinimal(data, opcode, flags)
FnIsMinimal ==
  /\ fnPc = "ready"
  /\ fnIn.fn = "isMinimal"
  /\ fnOut' = FnResult("isMinimal",
                       IsMinimal(fnIn.raw, fnIn.opcode, fnIn.flags), BNZero)
  /\ fnPc' = "done"
  /\ UNCHANGED fnIn
  /\ UNCHANGED notFn

\* Script.verifyMast(program, stack, output, flags, tx, i)
FnVerifyMast ==
  /\ fnPc = "ready"
  /\ fnIn.fn = "verifyMast"
  /\ fnOut' = VerifyMast(fnIn.data, fnIn.stack, fnIn.flags, fnIn.index)
  /\ fnPc' = "done"
  /\ UNCHANGED fnIn
  /\ UNCHANGED notFn

FnNext ==
  \/ FnGetCoinbaseHeight
  \/ FnIsMinimal
  \/ FnVerifyMast

SpecFn == FnInit /\ [][FnNext]_vars

\* the number h >= 17
AtLeast17(h) == ~h.neg /\ (Len(h.mag) > 1 \/ (Len(h.mag) = 1 /\ h.mag[1] >= 17))

\* the payload of the push the script begins with, when it has one of 1 to
\* 6 bytes that is not truncated
FirstPush(raw) ==
  IF Len(raw) > 0 /\ raw[1] >= 1 /\ raw[1] <= 6 /\ Len(raw) >= 1 + raw[1]
    THEN [found |-> TRUE, data |-> SubSeq(raw, 2, 1 + raw[1])]
    ELSE [found |-> FALSE, data |-> <<>>]

\* the number a payload is the minimal encoding of, if it is one
DecodedMinimal(data) ==
  LET n == Len(data)
      mag == IF n > 0 /\ HighBit(data[n])
               THEN StripZeros([data EXCEPT ![n] = @ - 128]) ELSE StripZeros(data)
      h == [neg |-> n > 0 /\ HighBit(data[n]) /\ mag # <<>>, mag |-> mag]
  IN [minimal |-> ScriptArray(h) = data, num |-> h]

\* C23: getCoinbaseHeight returns h for a script beginning with OP_h,
\* 0 <= h <= 16, and for one beginning with the direct push of the minimal
\* encoding of h >= 17 of up to 6 bytes; it returns -1 for the empty
\* script, for a first push above 6 bytes or truncated, for a number not
\* minimally encoded and for 0..16 given as a data push; it never returns
\* less than -1
C23_CoinbaseHeight ==
  (fnPc = "done" /\ fnOut.op = "getCoinbaseHeight") =>
    LET raw == fnIn.raw
        first == FirstPush(raw)
        decoded == DecodedMinimal(first.data)
    IN
    /\ (Len(raw) > 0 /\ GetSmall(raw[1]) # -1) =>
         fnOut.num = BNFromInt(GetSmall(raw[1]))
    /\ (first.found /\ decoded.minimal /\ AtLeast17(decoded.num)) =>
         fnOut.num = decoded.num
    /\ Len(raw) = 0 => fnOut.num = NoHeight
    /\ (Len(raw) > 0 /\ GetSmall(raw[1]) = -1 /\ ~first.found) =>
         fnOut.num = NoHeight
    /\ (first.found /\ ~decoded.minimal) => fnOut.num = NoHeight
    /\ (first.found /\ decoded.minimal /\ ~decoded.num.neg
          /\ ~AtLeast17(decoded.num)) => fnOut.num = NoHeight
    /\ fnOut.num.neg => fnOut.num = NoHeight

\* the largest payload a PUSHDATA2 carries
MaxPushdata2 == 65535

\* C24: with MINIMALDATA, isMinimal(d, op) is true only if op is the opcode
\* that pushes d in the shortest way (OP_0 for the empty payload, the length
\* up to 75 bytes, PUSHDATA1 up to 255, PUSHDATA2 up to 65535) and never for
\* a single byte 1..16 or 0x81 carried by a data push; without the flag it
\* is always true
C24_IsMinimal ==
  (fnPc = "done" /\ fnOut.op = "isMinimal") =>
    LET d == fnIn.raw
        op == fnIn.opcode
    IN
    /\ "MINIMALDATA" \notin fnIn.flags => fnOut.ok
    /\ ("MINIMALDATA" \in fnIn.flags /\ fnOut.ok /\ Len(d) <= MaxPushdata2) =>
         /\ op = FromData(d).value
         /\ Len(d) = 0 => op = OP_0
         /\ (Len(d) >= 1 /\ Len(d) <= MAX_DIRECT_PUSH) => op = Len(d)
         /\ (Len(d) > MAX_DIRECT_PUSH /\ Len(d) <= 255) => op = OP_PUSHDATA1
         /\ Len(d) > 255 => op = OP_PUSHDATA2
    /\ ("MINIMALDATA" \in fnIn.flags /\ Len(d) = 1
          /\ (d[1] \in 1..16 \/ d[1] = 129)) => ~fnOut.ok

\* isMinimal accepted a PUSHDATA2 of 256 bytes under MINIMALDATA
C24_Witness ==
  /\ fnPc = "done"
  /\ fnOut.op = "isMinimal"
  /\ "MINIMALDATA" \in fnIn.flags
  /\ fnOut.ok
  /\ Len(fnIn.raw) = 256
  /\ fnIn.opcode = OP_PUSHDATA2

\* the legacy sigops of the first k transactions
RECURSIVE PrefixSigops(_, _)
PrefixSigops(txs, k) ==
  IF k = 0 THEN 0 ELSE PrefixSigops(txs, k - 1) + txs[k].sigops

\* the checks of _verify that come before the loop over the transactions
\* all pass
ReachesTxLoop(b) ==
  /\ b.headersOk
  /\ Len(b.txs) <= MAX_BLOCK_SIZE
  /\ GetBaseSize(b) <= MAX_BLOCK_SIZE
  /\ Len(b.txs) > 0
  /\ b.txs[1].coinbase

\* transaction k is the first at which the running total of sigops, scaled,
\* is above the limit, the loop having come as far as counting it
FirstOverLimit(b, k) ==
  /\ ReachesTxLoop(b)
  /\ \A i \in 1..k : b.txs[i].sane /\ (i > 1 => ~b.txs[i].coinbase)
  /\ PrefixSigops(b.txs, k - 1) * WITNESS_SCALE_FACTOR <= MAX_SIGOPS_WEIGHT
  /\ PrefixSigops(b.txs, k) * WITNESS_SCALE_FACTOR > MAX_SIGOPS_WEIGHT

\* C25: when _verify returns true the legacy sigops of all transactions,
\* scaled by WITNESS_SCALE_FACTOR, are at most MAX_SIGOPS_WEIGHT; the limit
\* is tested on the running total after each transaction, so _verify fails
\* bad-blk-sigops at the first transaction that takes the total over the
\* limit, whatever the later transactions are, and for no other reason
C25_SigopsLimit ==
  bkPc = "verified" =>
    /\ bkRet.ok =>
         SumSigops(blk.txs, 1) * WITNESS_SCALE_FACTOR <= MAX_SIGOPS_WEIGHT
    /\ \A k \in 1..Len(blk.txs) :
         FirstOverLimit(blk, k) => bkRet = Invalid("bad-blk-sigops", 100)
    /\ bkRet.reason = "bad-blk-sigops" =>
         \E k \in 1..Len(blk.txs) : FirstOverLimit(blk, k)

\* a block failed bad-blk-sigops at its third transaction although the
\* fourth is not sane
C25_Witness ==
  /\ bkPc = "verified"
  /\ bkRet.reason = "bad-blk-sigops"
  /\ Len(blk.txs) = 4
  /\ FirstOverLimit(blk, 3)
  /\ ~blk.txs[4].sane

\* verifyMast came as far as computing the version
VersionComputed ==
  /\ fnPc = "done"
  /\ fnOut.op = "verifyMast"
  /\ Len(fnIn.stack) >= 4
  /\ Len(Top(fnIn.stack, 1)) <= 5
  /\ Len(fnIn.stack) >= Top(fnIn.stack, 1)[1] + 3
  /\ Last(Top(fnIn.stack, 1)) # 0

\* verifyMast came as far as computing the position
PosComputed ==
  /\ VersionComputed
  /\ fnOut.err # "DISCOURAGE_UPGRADABLE_WITNESS_PROGRAM"
  /\ Len(Top(fnIn.stack, 2)) % 32 = 0
  /\ Len(Top(fnIn.stack, 3)) \in 1..4
  /\ Last(Top(fnIn.stack, 3)) # 0

\* C26: verifyMast computes the version as the little-endian integer of the
\* metadata bytes 1..len-1 and the position as the little-endian integer of
\* the posdata bytes, whatever the input index it is given
C26_MastFields ==
  /\ VersionComputed => fnOut.num = LittleEndian(Tail(Top(fnIn.stack, 1)))
  /\ PosComputed => fnOut.pos = LittleEndian(Top(fnIn.stack, 3))

\* the opcodes above OP_16 among the first ip opcodes of a script
CountAbove16(code, ip) ==
  Cardinality({j \in 1..ip : ~code[j].push /\ code[j].value > OP_16})

\* the opcode at ip is a CHECKMULTISIG(VERIFY) of an executed branch that
\* gets as far as reading a key count within the limit
AtCountedMultisig ==
  /\ AtOp
  /\ ~CurOp.push
  /\ CurOp.value \in {OP_CHECKMULTISIG, OP_CHECKMULTISIGVERIFY}
  /\ ex.negate = 0
  /\ vfArgs.tx.present
  /\ Len(ex.stack) >= 1
  /\ ScriptNum(Top(ex.stack, 1), vfArgs.flags, NUM_SIZE).ok
  /\ BNToInt(ScriptNum(Top(ex.stack, 1), vfArgs.flags, NUM_SIZE).val)
       \in 0..MAX_MULTISIG_PUBKEYS

\* what the opcode at ip adds to the count: one if it is above OP_16, and
\* the key count of an executed CHECKMULTISIG
CountedHere ==
  (IF ~CurOp.push /\ CurOp.value > OP_16 THEN 1 ELSE 0)
  + (IF AtCountedMultisig
       THEN BNToInt(ScriptNum(Top(ex.stack, 1), vfArgs.flags, NUM_SIZE).val)
       ELSE 0)

\* C27: execute fails OP_COUNT as soon as the opcodes above OP_16 met so
\* far, executed or skipped, plus the key counts of the executed
\* CHECKMULTISIGs are more than 201; in an execution that goes on the count
\* is that total and at most 201; data pushes and OP_0..OP_16 never count
C27_OpCount ==
  /\ (Running /\ ex.ip = 0) => ex.opCount = 0
  /\ (Running /\ ex.err = "") =>
       /\ CountAbove16(ex.code, ex.ip) <= ex.opCount
       /\ ex.opCount <= MAX_OPS
  /\ (Running /\ AtOp /\ CurOp.value # -1) =>
       /\ ex.opCount + CountedHere > MAX_OPS => NextFrame.err = "OP_COUNT"
       /\ NextFrame.err = "OP_COUNT" => ex.opCount + CountedHere > MAX_OPS
       /\ NextFrame.err = "" => NextFrame.opCount = ex.opCount + CountedHere
  /\ (Running /\ AtOp /\ (CurOp.push \/ CurOp.value <= OP_16)) =>
       NextFrame.opCount = ex.opCount
  /\ (vfPc = "done" /\ vfRet.ok) => ex.opCount <= MAX_OPS

\* execute threw OP_COUNT at a CHECKMULTISIG of three keys met as the 199th
\* opcode above OP_16, after a skipped branch of opcodes that counted
C27_Witness ==
  /\ ThrewAtOp
  /\ vfArgs.kind = "opcount"
  /\ ex.err = "OP_COUNT"
  /\ CurOp.value = OP_CHECKMULTISIG
  /\ ex.code[2] = PlainOp(OP_IF)
  /\ CountAbove16(ex.code, ex.ip) = MAX_OPS - 3
  /\ Top(ex.stack, 1) = <<3>>

\* the opcode at ip is one of values, and no push
AtPlain(values) == AtOp /\ ~CurOp.push /\ CurOp.value \in values

\* the conditionals opened and not yet closed by the first ip opcodes
OpenAt(code, ip) ==
  Cardinality({j \in 1..ip : ~code[j].push /\ code[j].value \in {OP_IF, OP_NOTIF}})
  - Cardinality({j \in 1..ip : ~code[j].push /\ code[j].value = OP_ENDIF})

\* every OP_IF and OP_NOTIF of the script is closed by a later OP_ENDIF, and
\* no OP_ENDIF or OP_ELSE stands outside a conditional
Balanced(code) ==
  /\ OpenAt(code, Len(code)) = 0
  /\ \A j \in 1..Len(code) :
       (~code[j].push /\ code[j].value \in {OP_ELSE, OP_ENDIF}) =>
         OpenAt(code, j - 1) > 0

\* an execute has returned true
ExecuteReturned == Running /\ ex.ip = Len(ex.code) /\ ExecLeave(ex) = ""

\* the state stack with its top toggled
Toggled(state) == [state EXCEPT ![Len(state)] = ~@]

\* what C28 says of a successful execution and of OP_ELSE inside a
\* conditional, given that the opcode is not the one that passes MAX_OPS
ConditionalsClosed ==
  /\ (Running /\ ex.err = "") => Len(ex.state) = OpenAt(ex.code, ex.ip)
  /\ ExecuteReturned => Balanced(ex.code)

FalseEntries(state) == Cardinality({j \in 1..Len(state) : ~state[j]})

\* every enclosing conditional is true
AllTrue(state) == \A j \in 1..Len(state) : state[j]

\* C29: at the start of every iteration of the loop of execute, negate is
\* the number of false entries of the state stack; an opcode takes effect
\* exactly when every enclosing conditional is true; while negate > 0 no
\* opcode changes the stack or the alt stack, an OP_IF or OP_NOTIF inside a
\* skipped region popping nothing
C29_Negate ==
  (Running /\ ex.err = "") =>
    /\ ex.negate = FalseEntries(ex.state)
    /\ ex.negate >= 0
    /\ ex.negate <= Len(ex.state)
    /\ (ex.negate = 0) = AllTrue(ex.state)
    /\ (AtOp /\ ~AllTrue(ex.state) /\ NextFrame.err = "") =>
         /\ NextFrame.stack = ex.stack
         /\ NextFrame.alt = ex.alt
    /\ (AtPlain({OP_IF, OP_NOTIF}) /\ ~AllTrue(ex.state) /\ ex.opCount < MAX_OPS) =>
         /\ NextFrame.err = ""
         /\ NextFrame.state = Append(ex.state, FALSE)
    /\ (AtPlain({OP_1}) /\ AllTrue(ex.state)) =>
         NextFrame.stack = Append(ex.stack, <<1>>)
    /\ (AtPlain({OP_TOALTSTACK}) /\ AllTrue(ex.state) /\ Len(ex.stack) > 0
          /\ ex.opCount < MAX_OPS) =>
         /\ NextFrame.stack = Pop(ex.stack)
         /\ NextFrame.alt = Append(ex.alt, Top(ex.stack, 1))
    /\ (AtOp /\ CurOp.push /\ AllTrue(ex.state) /\ NextFrame.err = "") =>
         NextFrame.stack = Append(ex.stack, CurOp.data)

\* inside OP_ELSE of a conditional nested in a skipped branch: the state
\* stack holds a false and a true entry, negate is 1, and the OP_1 at ip is
\* skipped
C29_Witness ==
  /\ Running
  /\ vfArgs.kind = "branch"
  /\ ex.state = <<FALSE, TRUE>>
  /\ ex.negate = 1
  /\ AtPlain({OP_1})
  /\ NextFrame.stack = ex.stack

\* the push at ip is not the shortest opcode that pushes its data
AtNonMinimalPush ==
  /\ AtOp
  /\ CurOp.push
  /\ Len(CurOp.data) <= MAX_PUSH
  /\ FromData(CurOp.data) # CurOp

\* C30: under MINIMALDATA a push that is not minimally encoded fails
\* MINIMALDATA in an executed branch and is passed over in a skipped one; a
\* push of more than 520 bytes fails PUSH_SIZE and a parse error fails
\* BAD_OPCODE, in an executed branch or not
C30_SkippedPushes ==
  (Running /\ AtOp /\ ex.err = "") =>
    /\ CurOp.value = -1 => NextFrame.err = "BAD_OPCODE"
    /\ (CurOp.push /\ Len(CurOp.data) > MAX_PUSH) => NextFrame.err = "PUSH_SIZE"
    /\ (AtNonMinimalPush /\ "MINIMALDATA" \in vfArgs.flags) =>
         IF ex.negate = 0 THEN NextFrame.err = "MINIMALDATA"
         ELSE NextFrame = Continue(ex)

\* under MINIMALDATA execute passed over a push that is not minimal in a
\* skipped branch and then threw PUSH_SIZE at a push of 521 bytes in the
\* same branch
C30_Witness ==
  /\ ThrewAtOp
  /\ vfArgs.kind = "branch"
  /\ vfArgs.flags = {"MINIMALDATA"}
  /\ ex.err = "PUSH_SIZE"
  /\ ex.negate = 1
  /\ ex.ip = 2
  /\ ex.code[2] = LongPush
  /\ CurOp = BigPush

\* the opcode at ip is passed over: no error, and nothing but ip and the
\* opcode count changes
PassedOver ==
  /\ NextFrame.err = ""
  /\ NextFrame = Continue([ex EXCEPT !.opCount = NextFrame.opCount])

\* the opcode at ip is the one that brings the count of opcodes above OP_16
\* past MAX_OPS
PassesMaxOps == AtOp /\ ~CurOp.push /\ CurOp.value > OP_16 /\ ex.opCount = MAX_OPS

LockSpread == 1

\* a * 256
WTimes256(a) == WScale(WScale(a, 16), 16)

\* the shortest little-endian bytes of a wide number that is not negative
RECURSIVE WideBytes(_)
WideBytes(w) ==
  IF w = WInt(0) THEN <<>>
  ELSE LET q == HalfTimes(w, 8) IN
       <<WSub(w, WTimes256(q)).lo>> \o WideBytes(q)

\* new BN(w)
WideBN(w) == [neg |-> FALSE, mag |-> WideBytes(w)]

Around(w) == { WAdd(w, WInt(d)) : d \in (-LockSpread)..LockSpread }

Below(w) == { WSub(w, WInt(d)) : d \in 1..LockSpread }

\* 2^39, above every number of five bytes
Two39 == Wide(5497, 55813888)

\* stack elements that Script.num takes for a negative number, for a zero
\* with a sign, for a number with a needless byte, and for an overflow
OddOperands ==
  { <<129>>, <<255, 255, 255, 255, 255>>, <<128>>, <<1, 0>>,
    <<0, 0, 0, 0, 0, 1>>, <<0, 0, 0, 0, 0, 129>> }

LocktimeOperands ==
  { ScriptArray(WideBN(w)) :
      w \in {WInt(0)} \cup Around(WInt(LOCKTIME_THRESHOLD)) \cup Around(Two31)
              \cup Around(Two32) \cup Below(Two39) }
  \cup OddOperands

TxLocktimes ==
  { WideBN(w) :
      w \in {WInt(0)} \cup Around(WInt(LOCKTIME_THRESHOLD)) \cup Below(Two32) }

SequenceOperands ==
  { ScriptArray(WideBN(w)) :
      w \in {WInt(0)} \cup Around(WInt(65536)) \cup Around(WInt(SEQUENCE_TYPE_FLAG))
              \cup Around(Two31) \cup Around(Two32)
              \cup Around(WAdd(Two32, WInt(SEQUENCE_TYPE_FLAG)))
              \cup Around(WAdd(Two32, Two31)) \cup Below(Two39) }
  \cup OddOperands

TxSequences ==
  { WideBN(w) :
      w \in {WInt(0)} \cup Around(WInt(65536)) \cup Around(WInt(SEQUENCE_TYPE_FLAG))
              \cup Around(Two31) \cup Below(Two32) }

\* the input script: nothing, or the shortest push of the operand
OperandInput(pushed, operand) ==
  IF pushed THEN ScriptFromCode(<<FromData(operand)>>) ELSE PlainScript(<<>>)

LockCall(kind, pushed, operand, opcode, flags, tx) ==
  [Call(kind, OperandInput(pushed, operand), PlainScript(<<opcode>>), flags, {})
     EXCEPT !.args.tx = tx]

LockFlags(flag) ==
  { {flag}, {flag, "MINIMALDATA"}, {}, {"DISCOURAGE_UPGRADABLE_NOPS"} }

LocktimeCalls ==
  \E operand \in LocktimeOperands, locktime \in TxLocktimes,
     sequence \in {BNZero, SEQUENCE_FINAL}, pushed \in BOOLEAN,
     flags \in LockFlags("CHECKLOCKTIMEVERIFY") :
    /\ pushed \/ operand = <<>>
    /\ "CHECKLOCKTIMEVERIFY" \in flags \/ (operand = <<>> /\ locktime = BNZero)
    /\ Called(LockCall("locktime", pushed, operand, OP_CHECKLOCKTIMEVERIFY, flags,
                       [TheTx EXCEPT !.locktime = locktime, !.sequence = sequence]))

SequenceCalls ==
  \E operand \in SequenceOperands, sequence \in TxSequences, version \in {1, 2},
     pushed \in BOOLEAN, flags \in LockFlags("CHECKSEQUENCEVERIFY") :
    /\ pushed \/ operand = <<>>
    /\ "CHECKSEQUENCEVERIFY" \in flags \/ (operand = <<>> /\ sequence = BNZero)
    /\ Called(LockCall("sequence", pushed, operand, OP_CHECKSEQUENCEVERIFY, flags,
                       [TheTx EXCEPT !.version = version, !.sequence = sequence]))

LockInit ==
  /\ vfPc = "ready"
  /\ LocktimeCalls \/ SequenceCalls
  /\ ex = Frame(PlainScript(<<>>), <<>>, 0)
  /\ vfCopy = <<>>
  /\ vfStack = <<>>
  /\ vfHad = FALSE
  /\ vfRet = NotReturned
  /\ VerifyOthersIdle

\* the steps of a verify whose output is neither a script hash nor a
\* witness program
OutputNext ==
  \/ VerifyStart
  \/ ExecStep
  \/ VerifyAfterInput
  \/ VerifyAfterOutput

SpecLock == LockInit /\ [][OutputNext]_vars

\* the little-endian value of a byte vector, as a wide number
RECURSIVE WideOfBytes(_)
WideOfBytes(s) ==
  IF s = <<>> THEN WInt(0)
  ELSE WAdd(WInt(s[1]), WTimes256(WideOfBytes(Tail(s))))

\* the top of the stack, and the number it stands for: a sign bit in its
\* last byte and a magnitude
Operand == Top(ex.stack, 1)

OperandMagnitude ==
  IF Operand = <<>> THEN WInt(0)
  ELSE WideOfBytes([Operand EXCEPT ![Len(Operand)] = @ % 128])

OperandNegative ==
  Len(Operand) > 0 /\ HighBit(Last(Operand)) /\ OperandMagnitude # WInt(0)

\* Script.num(top, flags, 5) returns a number: at most 5 bytes, and under
\* MINIMALDATA the shortest bytes of its number
OperandDecodes ==
  /\ Len(Operand) <= 5
  /\ "MINIMALDATA" \in vfArgs.flags =>
       Operand = ScriptArray([neg |-> OperandNegative,
                              mag |-> WideBytes(OperandMagnitude)])

\* an executed opcode opcode is at ip, not the one that passes MAX_OPS
AtExecuted(opcode) ==
  Running /\ ex.err = "" /\ AtPlain({opcode}) /\ ex.negate = 0 /\ ~PassesMaxOps

\* an upgradable NOP whose flag is not set
AsNop ==
  IF "DISCOURAGE_UPGRADABLE_NOPS" \in vfArgs.flags
    THEN NextFrame.err = "DISCOURAGE_UPGRADABLE_NOPS"
    ELSE PassedOver

TxLocktime == WideOfBytes(vfArgs.tx.locktime.mag)
TxSequence == WideOfBytes(vfArgs.tx.sequence.mag)

\* the operand is a lock time the transaction satisfies
LocktimeSatisfied ==
  LET threshold == WInt(LOCKTIME_THRESHOLD) IN
  /\ WLess(OperandMagnitude, threshold) = WLess(TxLocktime, threshold)
  /\ WLeq(OperandMagnitude, TxLocktime)
  /\ TxSequence # WSub(Two32, WInt(1))

\* C32 as stated: with VERIFY_CHECKLOCKTIMEVERIFY an executed
\* OP_CHECKLOCKTIMEVERIFY leaves the stack as it is and succeeds exactly
\* when the top element, of at most 5 bytes, decodes to a number that is not
\* negative, is on the same side of 500000000 as tx.locktime and is at most
\* tx.locktime, the sequence of the input not being 0xffffffff; a negative
\* operand fails NEGATIVE_LOCKTIME, an empty stack INVALID_STACK_OPERATION
\* and everything else UNSATISFIED_LOCKTIME; without the flag it is a NOP
C32_AsStated ==
  AtExecuted(OP_CHECKLOCKTIMEVERIFY) =>
    IF "CHECKLOCKTIMEVERIFY" \notin vfArgs.flags THEN AsNop
    ELSE IF Len(ex.stack) = 0 THEN NextFrame.err = "INVALID_STACK_OPERATION"
    ELSE IF OperandDecodes /\ OperandNegative
      THEN NextFrame.err = "NEGATIVE_LOCKTIME"
    ELSE IF OperandDecodes /\ LocktimeSatisfied THEN PassedOver
    ELSE NextFrame.err = "UNSATISFIED_LOCKTIME"

\* C32: with VERIFY_CHECKLOCKTIMEVERIFY an executed OP_CHECKLOCKTIMEVERIFY
\* fails INVALID_STACK_OPERATION on an empty stack and UNKNOWN_ERROR when
\* the top element is longer than 5 bytes or, under MINIMALDATA, not
\* minimally encoded; a negative operand fails NEGATIVE_LOCKTIME; otherwise
\* it leaves the stack as it is and succeeds exactly when the operand is on
\* the same side of 500000000 as tx.locktime and at most tx.locktime, the
\* sequence of the input not being 0xffffffff, and fails
\* UNSATISFIED_LOCKTIME when not; without the flag it is a NOP
C32_Locktime ==
  AtExecuted(OP_CHECKLOCKTIMEVERIFY) =>
    IF "CHECKLOCKTIMEVERIFY" \notin vfArgs.flags THEN AsNop
    ELSE IF Len(ex.stack) = 0 THEN NextFrame.err = "INVALID_STACK_OPERATION"
    ELSE IF ~OperandDecodes THEN NextFrame.err = "UNKNOWN_ERROR"
    ELSE IF OperandNegative THEN NextFrame.err = "NEGATIVE_LOCKTIME"
    ELSE IF LocktimeSatisfied THEN PassedOver
    ELSE NextFrame.err = "UNSATISFIED_LOCKTIME"

\* OP_CHECKLOCKTIMEVERIFY has succeeded on the operand 2^31, which takes
\* five bytes, against the lock time 2^32 - 1
C32_Witness ==
  /\ vfPc = "output"
  /\ vfArgs.kind = "locktime"
  /\ "CHECKLOCKTIMEVERIFY" \in vfArgs.flags
  /\ ex.ip = 1
  /\ ex.err = ""
  /\ ex.stack = << <<0, 0, 0, 128, 0>> >>
  /\ vfArgs.tx.locktime = SEQUENCE_FINAL

\* bit k of a wide number that is not negative
WideBit(w, k) == w.hi >= 0 /\ HalfTimes(w, k).lo % 2 = 1

\* w & (TYPE_FLAG | MASK) for the integer w itself
WideMasked(w) ==
  LET low == WSub(w, WTimes256(WTimes256(HalfTimes(w, 16)))).lo IN
  IF WideBit(w, 22) THEN SEQUENCE_TYPE_FLAG + low ELSE low

\* the operand is a sequence the transaction satisfies
SequenceSatisfied ==
  /\ vfArgs.tx.version >= 2
  /\ ~WideBit(TxSequence, 31)
  /\ (WideMasked(OperandMagnitude) < SEQUENCE_TYPE_FLAG)
       = (WideMasked(TxSequence) < SEQUENCE_TYPE_FLAG)
  /\ WideMasked(OperandMagnitude) <= WideMasked(TxSequence)

\* C33: with VERIFY_CHECKSEQUENCEVERIFY an executed OP_CHECKSEQUENCEVERIFY
\* whose operand is a number of at most 5 bytes that is not negative is a
\* NOP when bit 31 of the operand is set; otherwise it succeeds exactly when
\* tx.version >= 2, bit 31 of the sequence of the input is clear, operand
\* and sequence masked with TYPE_FLAG | MASK are on the same side of
\* TYPE_FLAG and the masked operand is at most the masked sequence, and
\* fails UNSATISFIED_LOCKTIME when not; the masks the code takes of 32 bits
\* are those of the integers themselves
C33_Sequence ==
  ( /\ AtExecuted(OP_CHECKSEQUENCEVERIFY)
    /\ "CHECKSEQUENCEVERIFY" \in vfArgs.flags
    /\ Len(ex.stack) > 0
    /\ OperandDecodes
    /\ ~OperandNegative ) =>
    LET num == ScriptNum(Operand, vfArgs.flags, 5).val IN
    /\ BNBit31(num) = WideBit(OperandMagnitude, 31)
    /\ SequenceMasked(num) = WideMasked(OperandMagnitude)
    /\ SequenceMasked(vfArgs.tx.sequence) = WideMasked(TxSequence)
    /\ IF WideBit(OperandMagnitude, 31) \/ SequenceSatisfied THEN PassedOver
       ELSE NextFrame.err = "UNSATISFIED_LOCKTIME"

\* OP_CHECKSEQUENCEVERIFY has succeeded on the five bytes of 2^32 +
\* TYPE_FLAG + 1, whose bit 31 is clear, against the sequence TYPE_FLAG + 1
\* of a transaction of version 2
C33_Witness ==
  /\ vfPc = "output"
  /\ vfArgs.kind = "sequence"
  /\ "CHECKSEQUENCEVERIFY" \in vfArgs.flags
  /\ ex.ip = 1
  /\ ex.err = ""
  /\ ex.stack = << <<1, 0, 64, 0, 1>> >>
  /\ vfArgs.tx.version = 2
  /\ vfArgs.tx.sequence.mag = <<1, 0, 64>>

(***************************************************************************)
(* OP_CHECKMULTISIG and OP_CHECKMULTISIGVERIFY checked with their dummy    *)
(* element, under NULLFAIL and NULLDUMMY, and with an element below        *)
(***************************************************************************)

\* [below] dummy sig .. against OP_m key .. OP_n OP_CHECKMULTISIG(VERIFY)
DummyInput(below, dummy, sigs) ==
  ScriptFromCode((IF below THEN <<SmallInt(7)>> ELSE <<>>) \o <<SmallInt(dummy)>>
                   \o [j \in 1..Len(sigs) |-> PushSig(sigs[j])])

DummyOutput(m, n, opcode) ==
  ScriptFromCode(<<SmallInt(m)>> \o [k \in 1..n |-> Push(Key(k))]
                   \o <<SmallInt(n), PlainOp(opcode)>>)

DummyCalls ==
  \E n \in 0..MaxKeys :
    \E m \in 0..Min(n, MaxSigs) :
      \E sigs \in [1..m -> {SigA, NoSig}],
         valid \in SUBSET ({SigA} \X {Key(k) : k \in 1..n}),
         flags \in SUBSET {"NULLFAIL", "NULLDUMMY"},
         dummy \in {0, 1}, below \in BOOLEAN,
         opcode \in {OP_CHECKMULTISIG, OP_CHECKMULTISIGVERIFY} :
        Called(Call("dummy", DummyInput(below, dummy, sigs),
                    DummyOutput(m, n, opcode), flags, valid))

DummyInit ==
  /\ vfPc = "ready"
  /\ DummyCalls
  /\ ex = Frame(PlainScript(<<>>), <<>>, 0)
  /\ vfCopy = <<>>
  /\ vfStack = <<>>
  /\ vfHad = FALSE
  /\ vfRet = NotReturned
  /\ VerifyOthersIdle

SpecDummy == DummyInit /\ [][OutputNext]_vars

\* the counts on the stack at an OP_CHECKMULTISIG
KeyCount == BNToInt(ScriptNum(Top(ex.stack, 1), vfArgs.flags, NUM_SIZE).val)
SigCount ==
  BNToInt(ScriptNum(Top(ex.stack, KeyCount + 2), vfArgs.flags, NUM_SIZE).val)

\* execute stands at an executed OP_CHECKMULTISIG(VERIFY) whose counts, keys,
\* signatures and dummy are on the stack
AtMultisigArgs ==
  /\ Running
  /\ ex.err = ""
  /\ AtPlain({OP_CHECKMULTISIG, OP_CHECKMULTISIGVERIFY})
  /\ ex.negate = 0
  /\ Len(ex.stack) >= 1
  /\ KeyCount \in 0..MAX_MULTISIG_PUBKEYS
  /\ ex.opCount + 1 + KeyCount <= MAX_OPS
  /\ Len(ex.stack) >= KeyCount + 2
  /\ SigCount \in 0..KeyCount
  /\ Len(ex.stack) >= KeyCount + SigCount + 3

\* the keys, the signatures and the dummy, from the top of the stack down
StackKeys == [k \in 1..KeyCount |-> Top(ex.stack, 1 + k)]
StackSigs == [j \in 1..SigCount |-> Top(ex.stack, KeyCount + 2 + j)]
StackDummy == Top(ex.stack, KeyCount + SigCount + 3)

\* C34: at an executed OP_CHECKMULTISIG(VERIFY) with its n + m + 3
\* arguments on the stack, when the result is false under NULLFAIL and one
\* of the m signature elements is not empty the script aborts NULLFAIL;
\* else under NULLDUMMY a dummy that is not empty aborts SIG_NULLDUMMY; else
\* exactly n + m + 3 elements are popped and one boolean is pushed, the
\* elements below unchanged (OP_CHECKMULTISIGVERIFY then pops a true and
\* aborts on a false)
C34_Multisig ==
  AtMultisigArgs =>
    LET res == Matchable(StackSigs, StackKeys, ecValid)
        below == PopN(ex.stack, KeyCount + SigCount + 3)
    IN
    IF /\ ~res
       /\ "NULLFAIL" \in vfArgs.flags
       /\ \E j \in 1..SigCount : StackSigs[j] # <<>>
      THEN NextFrame.err = "NULLFAIL"
    ELSE IF "NULLDUMMY" \in vfArgs.flags /\ StackDummy # <<>>
      THEN NextFrame.err = "SIG_NULLDUMMY"
    ELSE IF CurOp.value = OP_CHECKMULTISIG THEN
      /\ NextFrame.err = ""
      /\ NextFrame.stack = Append(below, IF res THEN STACK_TRUE ELSE STACK_FALSE)
    ELSE IF res THEN NextFrame.err = "" /\ NextFrame.stack = below
    ELSE NextFrame.err = "CHECKMULTISIGVERIFY"

\* under NULLFAIL and NULLDUMMY an OP_CHECKMULTISIG of two signatures, the
\* deeper one empty and the other one failing, with a dummy that is not
\* empty and an element below it, has aborted NULLFAIL
C34_Witness ==
  /\ ThrewAtOp
  /\ vfArgs.kind = "dummy"
  /\ vfArgs.flags = {"NULLFAIL", "NULLDUMMY"}
  /\ ex.err = "NULLFAIL"
  /\ CurOp = PlainOp(OP_CHECKMULTISIG)
  /\ SigCount = 2
  /\ StackSigs = <<SigA, NoSig>>
  /\ StackDummy = <<1>>
  /\ Len(ex.stack) = KeyCount + SigCount + 4

\* one check of _verify: whether it fails, and what it then writes to ret
Check(fails, reason, score) == [fails |-> fails, reason |-> reason, score |-> score]

\* the three checks of the k-th transaction
TxChecks(b, k) ==
  << Check(k > 1 /\ b.txs[k].coinbase, "bad-cb-multiple", 100),
     Check(~b.txs[k].sane, b.txs[k].reason, b.txs[k].score),
     Check(PrefixSigops(b.txs, k) * WITNESS_SCALE_FACTOR > MAX_SIGOPS_WEIGHT,
           "bad-blk-sigops", 100) >>

\* the checks of _verify in the order C35 gives them
ChecksInOrder(b) ==
  LET n == Len(b.txs)
      leaves == Leaves(b.txs)
  IN
  << Check(~b.headersOk, "high-hash", 50),
     Check(n > MAX_BLOCK_SIZE \/ GetBaseSize(b) > MAX_BLOCK_SIZE,
           "bad-blk-length", 100),
     Check(n = 0 \/ ~b.txs[1].coinbase, "bad-cb-missing", 100) >>
  \o [j \in 1..(3 * n) |-> TxChecks(b, (j + 2) \div 3)[((j - 1) % 3) + 1]]
  \o << Check(MerkleMutated(leaves), "bad-txns-duplicate", 100),
        Check(n > 0 /\ RawMerkleRoot(leaves) # b.merkleRoot,
              "bad-txnmrklroot", 100) >>

\* the checks of a sequence that fail
FailedChecks(checks) == { k \in 1..Len(checks) : checks[k].fails }

\* what _verify returns and leaves in ret: the first check that fails, or
\* true and ret as it was
FirstFailure(b, ret) ==
  LET checks == ChecksInOrder(b)
      failed == FailedChecks(checks)
  IN
  IF failed = {} THEN [ret EXCEPT !.ok = TRUE]
  ELSE LET first == CHOOSE k \in failed : \A j \in failed : k <= j IN
       Invalid(checks[first].reason, checks[first].score)

\* the reasons _verify itself writes
BlockReasons ==
  {"bad-blk-length", "bad-cb-missing", "bad-cb-multiple", "bad-blk-sigops",
   "bad-txns-duplicate", "bad-txnmrklroot"}

\* C35: every call of _verify reports the first check that fails in the
\* order header, bad-blk-length, bad-cb-missing, then for each transaction
\* in block order bad-cb-multiple, its sanity check and the cumulative
\* bad-blk-sigops, then bad-txns-duplicate, then bad-txnmrklroot; a failure
\* of the block's own checks has score 100; when none fails it returns true
\* and leaves reason and score of ret as they were
C35_VerifyOrder ==
  [][(bkPc = "open" /\ bkPc' = "verified") =>
       /\ bkRet' = FirstFailure(blk, bkRet)
       /\ (~bkRet'.ok /\ bkRet'.reason \in BlockReasons) => bkRet'.score = 100
       /\ bkRet'.ok => (bkRet'.reason = bkRet.reason /\ bkRet'.score = bkRet.score)
    ]_vars

\* a block with a second coinbase, then a transaction that is not sane, then
\* one that takes the sigops over the limit, whose header commits to other
\* transactions, was refused bad-cb-multiple
C35_Witness ==
  /\ bkPc = "verified"
  /\ Len(blk.txs) = 4
  /\ blk.txs[1].coinbase
  /\ blk.txs[2].coinbase
  /\ ~blk.txs[3].sane
  /\ PrefixSigops(blk.txs, 4) * WITNESS_SCALE_FACTOR > MAX_SIGOPS_WEIGHT
  /\ Cardinality(FailedChecks(ChecksInOrder(blk))) >= 4
  /\ bkRet = Invalid("bad-cb-multiple", 100)

(***************************************************************************)
(* The arithmetic opcodes checked: verify is called with an input script   *)
(* that pushes the operands and an output script that is OP_ADD or OP_SUB  *)
(* followed by an opcode that reads the result, or that is one numeric     *)
(* opcode over operands one of which has five bytes.                       *)
(***************************************************************************)

\* how far below each boundary the operands are drawn
ArithSpread == 1

ArithMagnitudes ==
  {0, 1}
  \cup { b - d : b \in NumBoundaries \cup {INT32_MAX}, d \in 0..ArithSpread }

\* the shortest bytes of every operand, and some that are longer than needed
ArithOperands ==
  { ScriptArray(BNFromInt(s * n)) : s \in {-1, 1}, n \in ArithMagnitudes }
  \cup { <<128>>, <<1, 0>>, <<255, 0, 0, 128>> }

\* stack elements of five bytes: 2^31, -2^31, 2^39 - 1, and 1 in five bytes
LongOperands ==
  { <<0, 0, 0, 128, 0>>, <<0, 0, 0, 128, 128>>, <<255, 255, 255, 255, 127>>,
    <<1, 0, 0, 0, 0>> }

NumericOps == UnaryOps \cup BinaryOps \cup {OP_WITHIN}

\* the opcodes that read the result of the sum: as the only operand, as the
\* first of two, as the second of two, and as the first of three
ArithTails ==
  { <<>>, <<OP_1ADD>>, <<OP_1, OP_SUB>>, <<OP_1, OP_SWAP, OP_MIN>>,
    <<OP_0, OP_1, OP_WITHIN>> }

ArithFlags == { {}, {"MINIMALDATA"} }

PushAll(items) == ScriptFromCode([j \in 1..Len(items) |-> FromData(items[j])])

SumCalls ==
  \E a \in ArithOperands, b \in ArithOperands, opcode \in {OP_ADD, OP_SUB},
     tail \in ArithTails, flags \in ArithFlags :
    Called(Call("sum", PushAll(<<a, b>>), PlainScript(<<opcode>> \o tail), flags, {}))

LongOperandCalls ==
  \E long \in LongOperands, at \in 1..3, opcode \in NumericOps, flags \in ArithFlags :
    Called(Call("long", PushAll([j \in 1..3 |-> IF j = at THEN long ELSE <<j>>]),
                PlainScript(<<opcode>>), flags, {}))

ArithInit ==
  /\ vfPc = "ready"
  /\ SumCalls \/ LongOperandCalls
  /\ ex = Frame(PlainScript(<<>>), <<>>, 0)
  /\ vfCopy = <<>>
  /\ vfStack = <<>>
  /\ vfHad = FALSE
  /\ vfRet = NotReturned
  /\ VerifyOthersIdle

SpecArith == ArithInit /\ [][OutputNext]_vars

\* the number a stack element stands for: a sign and a magnitude
SignedOf(bytes) ==
  LET mag == IF bytes = <<>> THEN WInt(0)
             ELSE WideOfBytes([bytes EXCEPT ![Len(bytes)] = @ % 128])
  IN [neg |-> bytes # <<>> /\ Last(bytes) >= 128 /\ mag # WInt(0), mag |-> mag]

\* the shortest bytes of a number: its magnitude with the sign in the high
\* bit of the last byte, in a byte of its own when that bit is taken
MinimalEncoding(n) ==
  LET mag == WideBytes(n.mag)
      sign == IF n.neg THEN 128 ELSE 0
  IN IF mag = <<>> THEN <<>>
     ELSE IF Last(mag) >= 128 THEN Append(mag, sign)
     ELSE [mag EXCEPT ![Len(mag)] = @ + sign]

\* x + y
ExactSum(x, y) ==
  IF x.neg = y.neg THEN [neg |-> x.neg, mag |-> WAdd(x.mag, y.mag)]
  ELSE IF WLess(x.mag, y.mag) THEN [neg |-> y.neg, mag |-> WSub(y.mag, x.mag)]
  ELSE [neg |-> x.neg /\ x.mag # y.mag, mag |-> WSub(x.mag, y.mag)]

Negated(x) == [x EXCEPT !.neg = ~@ /\ x.mag # WInt(0)]

\* a number of the range [-(2^31 - 1), 2^31 - 1] as an operand: at most 4
\* bytes, and under MINIMALDATA the shortest ones
IsOperand(bytes) ==
  /\ Len(bytes) <= 4
  /\ "MINIMALDATA" \in vfArgs.flags => bytes = MinimalEncoding(SignedOf(bytes))

\* how many elements of the stack a numeric opcode reads
OperandsOf(value) ==
  IF value \in UnaryOps THEN 1 ELSE IF value \in BinaryOps THEN 2 ELSE 3

\* an executed opcode out of values is at ip, with its operands on the stack
AtNumeric(values) ==
  /\ Running /\ ex.err = "" /\ AtPlain(values) /\ ex.negate = 0 /\ ~PassesMaxOps
  /\ Len(ex.stack) >= OperandsOf(CurOp.value)

\* C36: a numeric opcode one of whose operands is longer than 4 bytes fails
\* (the error Script.num throws is UNKNOWN_ERROR); OP_ADD and OP_SUB over two
\* operands of [-(2^31 - 1), 2^31 - 1] replace them by the shortest bytes of
\* the exact a + b and a - b, which are 5 bytes when the result is outside
\* that range.
C36_Arithmetic ==
  /\ AtNumeric(NumericOps) =>
       ((\E k \in 1..OperandsOf(CurOp.value) : Len(Top(ex.stack, k)) > 4)
          => NextFrame.err = "UNKNOWN_ERROR")
  /\ (AtNumeric({OP_ADD, OP_SUB}) /\ IsOperand(Top(ex.stack, 1))
        /\ IsOperand(Top(ex.stack, 2))) =>
       LET a == SignedOf(Top(ex.stack, 2))
           b == SignedOf(Top(ex.stack, 1))
           result == IF CurOp.value = OP_ADD THEN ExactSum(a, b)
                     ELSE ExactSum(a, Negated(b))
       IN NextFrame = WithStack([ex EXCEPT !.opCount = NextFrame.opCount],
                                Append(PopN(ex.stack, 2), MinimalEncoding(result)))

\* OP_ADD has pushed -(2^32 - 2) in 5 bytes, and the OP_1ADD that reads it
\* fails
C36_Witness ==
  /\ AtNumeric({OP_1ADD})
  /\ ex.ip = 1
  /\ ex.code[1] = PlainOp(OP_ADD)
  /\ ex.stack = << <<254, 255, 255, 255, 128>> >>
  /\ NextFrame.err = "UNKNOWN_ERROR"

(***************************************************************************)
(* Script.prototype.removeData checked: a script is made of raw bytes, and *)
(* removeData is called on it with a data element.                         *)
(***************************************************************************)

\* constants.flags.STANDARD_VERIFY_FLAGS, as far as isMinimal reads it
STANDARD_VERIFY_FLAGS == {"MINIMALDATA"}

\* the loop over the code (script.js 1455-1474): the 1-based positions put
\* into index, from position i on
RECURSIVE RemoveIndex(_, _, _, _)
RemoveIndex(code, data, i, index) ==
  IF i > Len(code) THEN index
  ELSE LET op == code[i] IN
    IF op.value = -1 THEN (IF Len(index) > 0 THEN Append(index, i) ELSE index)
    ELSE IF ~op.push THEN RemoveIndex(code, data, i + 1, index)
    ELSE IF ~IsMinimal(op.data, op.value, STANDARD_VERIFY_FLAGS)
      THEN RemoveIndex(code, data, i + 1, index)
    ELSE IF op.data = data THEN RemoveIndex(code, data, i + 1, Append(index, i))
    ELSE RemoveIndex(code, data, i + 1, index)

\* code.splice(index[k], 1) for k from the last index down to the first
RECURSIVE SpliceOut(_, _, _)
SpliceOut(code, index, k) ==
  IF k = 0 THEN code
  ELSE SpliceOut(SubSeq(code, 1, index[k] - 1) \o SubSeq(code, index[k] + 1, Len(code)),
                 index, k - 1)

\* Script.prototype.removeData: the script afterwards, what is returned, and
\* whether Script.encode threw
RemoveData(script, data) ==
  LET index == RemoveIndex(script.code, data, 1, <<>>)
      code == SpliceOut(script.code, index, Len(index))
      encoded == ScriptEncode(code)
  IN
  IF Len(index) = 0
    THEN [code |-> script.code, raw |-> script.raw, ret |-> 0, threw |-> FALSE]
  ELSE IF ~encoded.ok
    THEN [code |-> code, raw |-> script.raw, ret |-> 0, threw |-> TRUE]
  ELSE [code |-> code, raw |-> encoded.raw, ret |-> Len(index), threw |-> FALSE]

\* the longest serialized script removeData is called on
MaxRemoveLen == 5

\* the bytes of these scripts: OP_0, the direct pushes of one and two bytes,
\* a byte that is no small integer, and OP_PUSHDATA1
RemoveBytes == {0, 1, 2, 17, OP_PUSHDATA1}

RemoveScripts == UNION { [1..n -> RemoveBytes] : n \in 0..MaxRemoveLen }

\* the data elements looked for
RemoveElements ==
  { <<>>, <<0>>, <<1>>, <<17>>, <<OP_PUSHDATA1>>, <<17, 17>>, <<0, 17>> }

RemoveInit ==
  /\ fnPc = "ready"
  /\ \E raw \in RemoveScripts, data \in RemoveElements :
       /\ fnIn = [raw |-> raw, data |-> data]
       /\ fnOut = [code |-> ScriptDecode(raw), raw |-> raw, ret |-> 0, threw |-> FALSE]
  /\ FnOthersIdle

\* script.removeData(data)
FnRemoveData ==
  /\ fnPc = "ready"
  /\ fnOut' = RemoveData([code |-> fnOut.code, raw |-> fnOut.raw], fnIn.data)
  /\ fnPc' = "done"
  /\ UNCHANGED fnIn
  /\ UNCHANGED notFn

SpecRemove == RemoveInit /\ [][FnRemoveData]_vars

\* the code the script had when removeData was called
CodeBefore == ScriptDecode(fnIn.raw)

\* the positions of the pushes of the element by the opcode Opcode.fromData
\* makes for it
MatchingPushes ==
  { i \in 1..Len(CodeBefore) :
      CodeBefore[i].push /\ CodeBefore[i] = FromData(fnIn.data) }

\* a sequence without the elements at some positions
RECURSIVE Without(_, _, _)
Without(s, positions, i) ==
  IF i > Len(s) THEN <<>>
  ELSE (IF i \in positions THEN <<>> ELSE <<s[i]>>) \o Without(s, positions, i + 1)

\* C37: removeData(d) removes the pushes of d by the minimal push opcode and
\* nothing else, keeps the order of the rest, encodes raw from what is left
\* and returns how many pushes it removed; without such a push the code and
\* raw stay and 0 is returned.
C37_RemoveData ==
  fnPc = "done" =>
    /\ fnOut.code = Without(CodeBefore, MatchingPushes, 1)
    /\ ~fnOut.threw
    /\ fnOut.ret = Cardinality(MatchingPushes)
    /\ IF MatchingPushes = {} THEN fnOut.raw = fnIn.raw
       ELSE ~HasParseError(fnOut.code) => fnOut.raw = EncodeBytes(fnOut.code)

(***************************************************************************)
(* The subscript of OP_CHECKSIG and OP_CHECKMULTISIG checked.  Scripts are *)
(* objects that refer to a code array and to a buffer of raw bytes; arrays *)
(* and buffers live in a heap, so that two scripts can refer to the same   *)
(* one.  A heap h holds the arrays, the buffers, the script executed and   *)
(* the subscript made of it.                                               *)
(***************************************************************************)

\* no array and no buffer
NullRef == 0

\* a subscript that is the executed script itself
GetSubscriptShared(h, lastSep) ==
  IF lastSep = 0 THEN [h EXCEPT !.subscript = h.script]
  ELSE
    LET own == h.arrays[h.script.code]
        stop == IF HasParseError(own)
                  THEN CHOOSE i \in 1..Len(own) : own[i].value = -1
                  ELSE Len(own) + 1
        code == SubSeq(own, lastSep + 1, stop - 1)
    IN [h EXCEPT !.arrays = Append(@, code),
                 !.buffers = Append(@, ScriptEncode(code).raw),
                 !.subscript = [code |-> Len(h.arrays) + 1, raw |-> Len(h.buffers) + 1]]

\* Script.prototype.getSubscript: for lastSep = 0 this.clone(), a new Script
\* of this.raw whose code is decoded into a new array; otherwise a new array
\* of the opcodes from lastSep up to a parse error, which new Script(code)
\* keeps as its code (Script.parseArray returns it) and encodes into a new
\* buffer
GetSubscript(h, lastSep) ==
  IF lastSep = 0
    THEN [h EXCEPT !.arrays = Append(@, ScriptDecode(h.buffers[h.script.raw])),
                   !.subscript = [code |-> Len(h.arrays) + 1, raw |-> h.script.raw]]
  ELSE
    LET own == h.arrays[h.script.code]
        stop == IF HasParseError(own)
                  THEN CHOOSE i \in 1..Len(own) : own[i].value = -1
                  ELSE Len(own) + 1
        code == SubSeq(own, lastSep + 1, stop - 1)
    IN [h EXCEPT !.arrays = Append(@, code),
                 !.buffers = Append(@, ScriptEncode(code).raw),
                 !.subscript = [code |-> Len(h.arrays) + 1, raw |-> Len(h.buffers) + 1]]

\* subscript.removeData(sig): the splices change the code array of the
\* subscript in place, and raw becomes a new buffer
SubscriptRemoveData(h, sig) ==
  LET removed == RemoveData([code |-> h.arrays[h.subscript.code],
                             raw |-> h.buffers[h.subscript.raw]], sig)
  IN IF removed.ret = 0 THEN h
     ELSE [h EXCEPT !.arrays[h.subscript.code] = removed.code,
                    !.buffers = Append(@, removed.raw),
                    !.subscript.raw = Len(h.buffers) + 1]

\* the loop over the signatures (script.js 1048-1052; one signature for
\* OP_CHECKSIG, 977-978)
RECURSIVE RemoveSigs(_, _, _)
RemoveSigs(h, sigs, j) ==
  IF j > Len(sigs) THEN h
  ELSE RemoveSigs(SubscriptRemoveData(h, sigs[j]), sigs, j + 1)

\* the subscript as execute hands it to tx.signatureHash
ChecksigSubscript(h, lastSep, sigs, version) ==
  LET made == GetSubscript(h, lastSep) IN
  IF version = 0 THEN RemoveSigs(made, sigs, 1) ELSE made

\* the longest serialized script executed
MaxSubscriptLen == 5

\* its bytes: the direct push of one byte, a byte that is no small integer,
\* OP_CODESEPARATOR and OP_CHECKSIG
SubscriptBytes == {1, 17, OP_CODESEPARATOR, OP_CHECKSIG}

SubscriptScripts == UNION { [1..n -> SubscriptBytes] : n \in 1..MaxSubscriptLen }

\* the signatures on the stack: one for OP_CHECKSIG, more for OP_CHECKMULTISIG
SubscriptSigs ==
  LET elements == { <<17>>, <<OP_CODESEPARATOR>> } IN
  { <<s>> : s \in elements } \cup { <<s, t>> : s \in elements, t \in elements }

\* lastSep when the opcode at the 1-based position at is executed: 0, or the
\* position of an OP_CODESEPARATOR before it
LastSeps(code, at) ==
  {0} \cup { p \in 1..(at - 1) : code[p] = PlainOp(OP_CODESEPARATOR) }

AliasInit ==
  /\ fnPc = "ready"
  /\ \E raw \in SubscriptScripts, sigs \in SubscriptSigs, version \in {0, 1} :
       LET code == ScriptDecode(raw) IN
       \E at \in 1..Len(code) : \E lastSep \in LastSeps(code, at) :
         /\ code[at] = PlainOp(OP_CHECKSIG)
         /\ fnIn = [raw |-> raw, sigs |-> sigs, version |-> version, lastSep |-> lastSep]
         /\ fnOut = [arrays |-> <<code>>, buffers |-> <<raw>>,
                     script |-> [code |-> 1, raw |-> 1],
                     subscript |-> [code |-> NullRef, raw |-> NullRef]]
  /\ FnOthersIdle

\* execute at an OP_CHECKSIG or OP_CHECKMULTISIG, as far as it touches scripts
FnChecksigSubscript ==
  /\ fnPc = "ready"
  /\ fnOut' = ChecksigSubscript(fnOut, fnIn.lastSep, fnIn.sigs, fnIn.version)
  /\ fnPc' = "done"
  /\ UNCHANGED fnIn
  /\ UNCHANGED notFn

SpecAlias == AliasInit /\ [][FnChecksigSubscript]_vars

\* C38: the script executed refers to the code array and to the raw buffer
\* it was made with, and they hold what they held; the code array of the
\* subscript is another array.
C38_ScriptUntouched ==
  /\ fnOut.script = [code |-> 1, raw |-> 1]
  /\ fnOut.arrays[1] = ScriptDecode(fnIn.raw)
  /\ fnOut.buffers[1] = fnIn.raw
  /\ fnPc = "done" => fnOut.subscript.code \notin {NullRef, fnOut.script.code}

\* with lastSep = 0 and sigversion 0 two pushes of signatures were removed
\* from the subscript
C38_Witness ==
  /\ fnPc = "done"
  /\ fnIn.lastSep = 0
  /\ fnIn.version = 0
  /\ Len(fnOut.arrays[fnOut.subscript.code]) = Len(fnOut.arrays[1]) - 2
  /\ fnOut.buffers[fnOut.subscript.raw] # fnIn.raw

(***************************************************************************)
(* Coins.add, get, spend and toRaw called in any order on a Coins that is  *)
(* new, built of decoded coins, or loaded from its serialization.          *)
(***************************************************************************)

\* Script.prototype.isUnspendable, on the raw bytes of the script
IsUnspendable(raw) == Len(raw) > 0 /\ raw[1] = OP_RETURN

\* Coins.prototype.add
CoinsAdd(coins, coin) ==
  LET first == IF Len(coins.outputs) = 0
                 THEN [coins EXCEPT !.version = coin.version, !.hash = coin.hash,
                                    !.height = coin.height,
                                    !.coinbase = coin.coinbase]
                 ELSE coins
      missing == coin.index + 1 - Len(coins.outputs)
      outputs == IF missing > 0
                   THEN coins.outputs \o [k \in 1..missing |-> NullEntry]
                   ELSE coins.outputs
  IN [first EXCEPT !.outputs =
        [outputs EXCEPT ![coin.index + 1] =
           IF IsUnspendable(coin.script) THEN NullEntry ELSE CoinEntry(coin)]]

\* the largest index add is called with
MaxSpendIndex == 1

\* new Coins()
NewCoins ==
  [version |-> 1, hash |-> "null", height |-> -1, coinbase |-> TRUE,
   outputs |-> <<>>]

\* the Coins of a transaction with the spendable outputs U
SpendBuilt(U) ==
  LET hdr == [version |-> 2, height |-> 0, coinbase |-> FALSE] IN
  [version |-> hdr.version, hash |-> "txid", height |-> hdr.height,
   coinbase |-> hdr.coinbase, outputs |-> BuildOutputs(hdr, "txid", U, 0, 0)]

\* the coins handed to add at an index: one to a key hash and one that
\* cannot be spent
AddedCoins(index) ==
  { CoinRec(2, FALSE, 7, "txid", index, script, 5) :
      script \in { P2PKHRaw(Hash20(19)), <<OP_RETURN, 1, 17>> } }

\* what spend has returned so far: the indexes it ever returned a coin of,
\* those of them at which add has stored no coin since, and those it has
\* returned a coin of more than once
NoHistory == [returned |-> {}, since |-> {}, again |-> {}]

SpendInit ==
  /\ cnPc = "open"
  /\ \E U \in SUBSET (0..MaxSpendIndex), loaded \in BOOLEAN :
       /\ loaded => U # {}
       /\ cn = IF U = {} THEN NewCoins
               ELSE IF loaded
                 THEN CoinsFromRaw(CoinsToRawBuf(SpendBuilt(U)).raw, "txid", NoIndex).coins
               ELSE SpendBuilt(U)
  /\ cnSrc = NoHistory
  /\ cnBuf = NoBuf
  /\ cnRet = NoRet
  /\ cnBuf2 = NoBuf
  /\ CoinsOthersIdle

\* coins.add(coin)
SpendAdd ==
  /\ cnPc = "open"
  /\ \E index \in 0..MaxSpendIndex : \E coin \in AddedCoins(index) :
       /\ cn' = CoinsAdd(cn, coin)
       /\ cnRet' = [op |-> "add", index |-> index, found |-> FALSE, coin |-> coin]
       /\ cnSrc' = [cnSrc EXCEPT !.since = { i \in @ : ~CoinsHas(cn', i) }]
  /\ cnBuf' = NoBuf
  /\ UNCHANGED <<cnPc, cnBuf2>>
  /\ UNCHANGED notCoins

\* coins.get(index)
SpendGet ==
  /\ cnPc = "open"
  /\ \E index \in 0..(MaxSpendIndex + 1) :
       cnRet' = [op |-> "get", index |-> index, found |-> CoinsGet(cn, index).found,
                 coin |-> CoinsGet(cn, index).coin]
  /\ cnBuf' = NoBuf
  /\ UNCHANGED <<cn, cnPc, cnSrc, cnBuf2>>
  /\ UNCHANGED notCoins

\* coins.spend(index)
SpendSpend ==
  /\ cnPc = "open"
  /\ \E index \in 0..(MaxSpendIndex + 1) :
       LET r == CoinsSpend(cn, index) IN
       /\ cn' = r.coins
       /\ cnRet' = [op |-> "spend", index |-> index, found |-> r.ret.found,
                    coin |-> r.ret.coin]
       /\ cnSrc' = IF r.ret.found
                     THEN [returned |-> cnSrc.returned \cup {index},
                           since |-> cnSrc.since \cup {index},
                           again |-> cnSrc.again \cup (cnSrc.returned \cap {index})]
                     ELSE cnSrc
  /\ cnBuf' = NoBuf
  /\ UNCHANGED <<cnPc, cnBuf2>>
  /\ UNCHANGED notCoins

\* coins.toRaw()
SpendToRaw ==
  /\ cnPc = "open"
  /\ cnBuf' = CoinsToRawBuf(cn)
  /\ cnRet' = [op |-> "toRaw", index |-> 0, found |-> CoinsToRawBuf(cn).set,
               coin |-> NoCoin]
  /\ UNCHANGED <<cn, cnPc, cnSrc, cnBuf2>>
  /\ UNCHANGED notCoins

SpendNext ==
  \/ SpendAdd
  \/ SpendGet
  \/ SpendSpend
  \/ SpendToRaw

SpecSpend == SpendInit /\ [][SpendNext]_vars

\* a step of spend: at an unspent output it returns the coin get returns,
\* empties that slot and no other, and count() is one less; elsewhere it
\* returns nothing and changes nothing
SpendStepRight ==
  cnRet'.op = "spend" =>
    LET i == cnRet'.index IN
    IF CoinsHas(cn, i)
      THEN /\ cnRet'.found
           /\ cnRet'.coin = CoinsGet(cn, i).coin
           /\ ~CoinsHas(cn', i)
           /\ CoinsCount(cn') = CoinsCount(cn) - 1
           /\ cn' = [cn EXCEPT !.outputs[i + 1] = NullEntry]
      ELSE ~cnRet'.found /\ cn' = cn

\* count() <= size() <= outputs.length, and toRaw writes nothing exactly
\* when count() = 0
CountSizeLength ==
  /\ CoinsCount(cn) <= CoinsSize(cn)
  /\ CoinsSize(cn) <= Len(cn.outputs)
  /\ CoinsToRawBuf(cn).set <=> CoinsCount(cn) # 0
  /\ cnRet.op = "toRaw" => (cnBuf.set <=> CoinsCount(cn) # 0)

\* C39 as stated: in every sequence of add, get and spend, spend behaves as
\* SpendStepRight says, no output is returned by spend twice, and
\* CountSizeLength holds throughout
C39_AsStated ==
  /\ []CountSizeLength
  /\ [][SpendStepRight
        /\ ((cnRet'.op = "spend" /\ cnRet'.found) => cnRet'.index \notin cnSrc.returned)
       ]_vars

\* C39: in every sequence of add, get and spend, spend behaves as
\* SpendStepRight says, no output is returned by spend twice unless add has
\* stored a coin at its index in between, and CountSizeLength holds
\* throughout
C39_Spend ==
  /\ []CountSizeLength
  /\ [][SpendStepRight
        /\ ((cnRet'.op = "spend" /\ cnRet'.found) => cnRet'.index \notin cnSrc.since)
       ]_vars

\* output 1 of a loaded Coins was spent, added again and spent again, and
\* the Coins is now empty of coins
C39_Witness ==
  /\ cnRet.op = "spend" /\ cnRet.index = 1 /\ cnRet.found
  /\ cnRet.coin.value = 5
  /\ cnSrc.returned = {0, 1}
  /\ cnSrc.since = {0, 1}
  /\ cnSrc.again = {1}
  /\ cn.version = 2
  /\ Len(cn.outputs) = 2
  /\ CoinsCount(cn) = 0

\* C40: in every state of an immutable block, _raw is set exactly when
\* _size is not -1, and then _size > 0 and _witnessSize >= 0; getRaw,
\* getSizes and getWeight never fail an assertion.
C40_RawIffSize ==
  ~ck.mutable =>
    /\ ck.raw.set <=> ck.size # -1
    /\ ck.raw.set => (ck.size > 0 /\ ck.witnessSize >= 0)
    /\ ckRet.op \in {"getRaw", "getSizes", "getWeight"} => ~ckRet.threw

\* an immutable block read from bytes with a witness, given one more
\* transaction, has answered getWeight from the sizes of its bytes
C40_Witness ==
  /\ ~ck.mutable
  /\ ckPc = "returned"
  /\ ckRet.op = "getWeight"
  /\ ck.raw.set
  /\ Len(ck.txs) = Len(ck.raw.txs) + 1
  /\ ck.witnessSize = 34
  /\ ckRet.value.weight = WeightOf(ck.size, 34)

====
